---- MODULE Spec2Model ----
(***************************************************************************)
(* Model of the FUSE adapter RemoteFS (clientFS/src/filesystem.rs) and of  *)
(* the blocking HTTP client it drives (clientFS/src/api_client.rs).        *)
(*                                                                         *)
(* A step of the model is one kernel callback, run from entry to return:   *)
(* fuser hands callbacks to `&mut self` one at a time.  The storage server *)
(* is the environment: it keeps a tree of objects, and any request to it   *)
(* may fail.                                                               *)
(***************************************************************************)
EXTENDS Integers, Sequences, FiniteSets, TLC

(***************************************************************************)
(* Bounds of the model.                                                    *)
(***************************************************************************)
MaxIno == 5        \* inode numbers are issued while next_ino <= MaxIno
MaxFh == 2         \* file handles are issued while next_fh <= MaxFh
MaxDepth == 2      \* the server holds objects at most this deep
MaxCalls == 2      \* callbacks made after the state a run starts in
MaxOff == 1        \* offsets handed to read / write / readdir: 0..MaxOff
MaxData == 1       \* write carries 1..MaxData bytes
MaxSize == 1       \* read asks for 0..MaxSize bytes
MaxCap == 2        \* a readdir reply buffer takes 0..MaxCap entries
\* the same, where only read and write run, on one file
RWMaxLen == 2      \* length of the file when the run starts: 0..RWMaxLen
RWMaxOff == 2      \* offsets: 0..RWMaxOff
RWMaxData == 1     \* write carries 1..RWMaxData bytes
RWMaxSize == 2     \* read asks for 0..RWMaxSize bytes
RWMaxCalls == 1    \* callbacks made after the state a run starts in
\* the same, where the server's objects also change behind the adapter
AttrMaxCalls == 2  \* steps made after the state a run starts in
\* the dispatcher of fs/mod.rs
FsMaxIno == 4      \* inode numbers are issued while next_inode <= FsMaxIno
FsMaxCalls == 1    \* callbacks made after the state a run starts in
FsMaxOff == 1      \* offsets handed to read / write / readdir: 0..FsMaxOff
FsMaxData == 1     \* write carries 1..FsMaxData bytes
FsMaxSize == 1     \* read asks for 1..FsMaxSize bytes
FsMaxCap == 2      \* a readdir reply buffer takes 0..FsMaxCap entries
\* two callbacks of filesystem.rs running side by side
MtMaxOff == 1      \* offsets handed to write: 0..MtMaxOff
MtMaxCap == 4      \* the readdir reply buffer takes MtMaxCap entries

(***************************************************************************)
(* Program constants.                                                      *)
(***************************************************************************)
ENOENT == 2
EIO == 5
TTL == 1
ROOT_INO == 1
BLKSIZE == 512
UID == 501
GID == 20
NOW == 9           \* the reading of SystemTime::now(), seconds since epoch

None == [some |-> FALSE]             \* Option::None
Some(v) == [some |-> TRUE, val |-> v] \* Option::Some(v)

(***************************************************************************)
(* Input alphabets.                                                        *)
(***************************************************************************)
Names == {"a", "b"}
NameOrder == <<"a", "b">>          \* the server lists children in this order
NonTextName == "<non-utf8>"        \* an OsStr that is not valid UTF-8
DataBytes == {1, 2}
FILE_MODE == 32768 + 420           \* S_IFREG | 0o644, mode of a served file
DIR_MODE == 16384 + 493            \* S_IFDIR | 0o755, mode of a served directory

VARIABLES
    inodes,        \* HashMap<u64, INode>
    path_to_ino,   \* HashMap<String, u64>
    next_ino,      \* u64
    next_fh,       \* u64
    remote,        \* the server's objects: path -> [is_dir, data, mtime, ctime]
    panicked,      \* a callback unwound; the daemon is gone
    issued,        \* [ino, path] in the order get_or_create_inode issued them
    pre,           \* the registry as the last callback found it
    call,          \* the last callback and its arguments
    replies,       \* what the last callback wrote to its reply handle
    rpc,           \* the requests the last callback sent to the server
    calls,         \* number of callbacks so far
    inode_map,     \* fs/mod.rs: HashMap<u64, String>
    path_map,      \* fs/mod.rs: HashMap<String, u64>
    next_inode,    \* fs/mod.rs: u64
    threads,       \* what each thread that runs a callback is at
    owner,         \* the thread that holds each Mutex of RemoteFS, or "free"
    poisoned       \* the Mutexes a panic left poisoned

vars == <<inodes, path_to_ino, next_ino, next_fh, remote, panicked, issued,
          pre, call, replies, rpc, calls, inode_map, path_map, next_inode,
          threads, owner, poisoned>>
\* the fields of fs/mod.rs's RemoteFS
fs_vars == <<inode_map, path_map, next_inode>>

(***************************************************************************)
(* HashMap insert / remove.                                                *)
(***************************************************************************)
Insert(m, k, v) == [x \in (DOMAIN m) \cup {k} |-> IF x = k THEN v ELSE m[x]]
Remove(m, k) == [x \in (DOMAIN m) \ {k} |-> m[x]]
EmptyMap == [x \in {} |-> 0]

(***************************************************************************)
(* Paths.  The adapter only ever builds a path with format!, from a parent *)
(* path and a name.                                                        *)
(***************************************************************************)
JoinPath(parent_path, name_str) ==
    IF parent_path = "/" THEN "/" \o name_str
    ELSE parent_path \o "/" \o name_str

RECURSIVE Render(_)
Render(s) == IF Len(s) = 0 THEN "/"
             ELSE JoinPath(Render(SubSeq(s, 1, Len(s) - 1)), s[Len(s)])

PathSeqs(d) == UNION { [1..n -> Names] : n \in 0..d }
ServerPaths == { Render(s) : s \in PathSeqs(MaxDepth) }
\* the server's view of a path string: its components
ComponentsOf == [p \in { Render(s) : s \in PathSeqs(MaxDepth + 1) } |->
                   CHOOSE s \in PathSeqs(MaxDepth + 1) : Render(s) = p]
Components(p) == ComponentsOf[p]
IsPrefix(s, t) == Len(s) <= Len(t) /\ SubSeq(t, 1, Len(s)) = s
ParentPath(p) == LET s == Components(p) IN Render(SubSeq(s, 1, Len(s) - 1))

(***************************************************************************)
(* The storage server, as the HTTP contract describes it: a tree of        *)
(* objects addressed by path.  Each operator gives the outcome of one      *)
(* request that reached the server; `up` is FALSE when the request fails   *)
(* on the way (network error, timeout, non-2xx answer).                    *)
(***************************************************************************)
Obj(is_dir, bytes, mtime, ctime) ==
    [is_dir |-> is_dir, data |-> bytes, mtime |-> mtime, ctime |-> ctime]
FileObj(bytes) == Obj(FALSE, bytes, NOW, NOW)    \* stamped when written
DirObj == Obj(TRUE, <<>>, NOW, NOW)

Exists(srv, p) == p \in DOMAIN srv
IsDirAt(srv, p) == Exists(srv, p) /\ srv[p].is_dir
IsFileAt(srv, p) == Exists(srv, p) /\ ~srv[p].is_dir
Under(p, q) == \* q is p or lies below p
    p \in ServerPaths /\ q \in ServerPaths /\ IsPrefix(Components(p), Components(q))
Servable(p) == p \in ServerPaths

\* GET /list/<path>: the children of a directory, in server order
ChildNames(srv, p) ==
    SelectSeq(NameOrder, LAMBDA n : Exists(srv, JoinPath(p, n)))
SrvEntry(srv, p, n) ==
    LET o == srv[JoinPath(p, n)]
    IN [name |-> n, is_dir |-> o.is_dir, size |-> Len(o.data),
        mtime |-> o.mtime, ctime |-> o.ctime,
        mode |-> IF o.is_dir THEN DIR_MODE ELSE FILE_MODE]
SrvList(srv, p) ==
    LET ns == ChildNames(srv, p)
    IN [k \in 1..Len(ns) |-> SrvEntry(srv, p, ns[k])]

\* PUT /files/<path>: replaces the whole object
SrvCanPut(srv, p) ==
    /\ Servable(p) /\ p # "/"
    /\ IsDirAt(srv, ParentPath(p))
    /\ ~IsDirAt(srv, p)
SrvPut(srv, p, bytes) == Insert(srv, p, FileObj(bytes))

\* POST /mkdir/<path>
SrvCanMkdir(srv, p) ==
    /\ Servable(p) /\ p # "/"
    /\ IsDirAt(srv, ParentPath(p))
    /\ ~Exists(srv, p)
SrvMkdir(srv, p) == Insert(srv, p, DirObj)

\* DELETE /files/<path>: a file, or a directory with what is below it
SrvCanDelete(srv, p) == Servable(p) /\ p # "/" /\ Exists(srv, p)
SrvDelete(srv, p) == [q \in {r \in DOMAIN srv : ~Under(p, r)} |-> srv[q]]

\* POST /rename: moves an object, with what is below it.  As rename(2): a
\* file replaces a file, a directory replaces an empty directory, and
\* nothing moves below itself.
Rebase(from, to, q) ==
    LET f == Components(from)
        c == Components(q)
    IN Render(Components(to) \o SubSeq(c, Len(f) + 1, Len(c)))
IsEmptyDirAt(srv, p) == IsDirAt(srv, p) /\ Len(ChildNames(srv, p)) = 0
SrvCanRename(srv, from, to) ==
    /\ Servable(from) /\ Servable(to) /\ from # "/" /\ to # "/"
    /\ Exists(srv, from)
    /\ IsDirAt(srv, ParentPath(to))
    /\ \/ from = to
       \/ /\ ~Under(from, to)
          /\ Exists(srv, to) =>
               IF srv[from].is_dir THEN IsEmptyDirAt(srv, to) ELSE IsFileAt(srv, to)
          /\ \A q \in DOMAIN srv : Under(from, q) => Servable(Rebase(from, to, q))
SrvRename(srv, from, to) ==
    IF from = to THEN srv
    ELSE LET moved == {q \in DOMAIN srv : Under(from, q)}
             kept == {q \in DOMAIN srv : ~Under(from, q) /\ ~Under(to, q)}
             landed == {Rebase(from, to, q) : q \in moved}
         IN [q \in kept \cup landed |->
               IF q \in landed
               THEN srv[CHOOSE r \in moved : Rebase(from, to, r) = q]
               ELSE srv[q]]

(***************************************************************************)
(* The registry: inodes, path_to_ino, next_ino (and the record of issued   *)
(* numbers), passed around as one record by the operators below.           *)
(***************************************************************************)
Registry == [inodes |-> inodes, path_to_ino |-> path_to_ino,
             next_ino |-> next_ino, issued |-> issued]

\* Duration::from_secs_f64 panics on a negative (or non-finite) argument
from_secs_f64_ok(secs) == secs >= 0

\* the FileAttr built by get_or_create_inode
entry_attr(ino, entry) ==
    [ino |-> ino,
     size |-> entry.size,
     blocks |-> (entry.size + 511) \div 512,
     atime |-> entry.mtime,
     mtime |-> entry.mtime,
     ctime |-> entry.ctime,
     crtime |-> entry.ctime,
     kind |-> IF entry.is_dir THEN "Directory" ELSE "RegularFile",
     perm |-> entry.mode % 512,
     nlink |-> IF entry.is_dir THEN 2 ELSE 1,
     uid |-> UID, gid |-> GID, rdev |-> 0, flags |-> 0, blksize |-> BLKSIZE]

root_attr ==
    [ino |-> ROOT_INO, size |-> 0, blocks |-> 0,
     atime |-> NOW, mtime |-> NOW, ctime |-> NOW, crtime |-> NOW,
     kind |-> "Directory", perm |-> 493, nlink |-> 2,
     uid |-> UID, gid |-> GID, rdev |-> 0, flags |-> 0, blksize |-> BLKSIZE]

\* (variant: the lowest number that is free is handed out again)
get_or_create_inode_recycling(reg, path, entry) ==
    IF path \in DOMAIN reg.path_to_ino
    THEN [reg |-> reg, ino |-> reg.path_to_ino[path], panic |-> FALSE]
    ELSE LET ino == CHOOSE n \in 2..reg.next_ino :
                       /\ n \notin DOMAIN reg.inodes
                       /\ \A m \in 2..(n - 1) : m \in DOMAIN reg.inodes
             bumped == [reg EXCEPT !.next_ino = @ + 1]
         IN IF ~(entry.mtime >= 0 /\ entry.ctime >= 0)
            THEN [reg |-> bumped, ino |-> 0, panic |-> TRUE]
            ELSE [reg |-> [bumped EXCEPT
                             !.inodes = Insert(@, ino,
                                 [ino |-> ino, path |-> path,
                                  attr |-> entry_attr(ino, entry)]),
                             !.path_to_ino = Insert(@, path, ino),
                             !.issued = Append(@, [ino |-> ino, path |-> path])],
                  ino |-> ino, panic |-> FALSE]

\* (variant: no early return, a number is taken for a path that has one)
get_or_create_inode_unchecked(reg, path, entry) ==
    LET ino == reg.next_ino
        bumped == [reg EXCEPT !.next_ino = ino + 1]
    IN IF ~(from_secs_f64_ok(entry.mtime) /\ from_secs_f64_ok(entry.ctime))
       THEN [reg |-> bumped, ino |-> 0, panic |-> TRUE]
       ELSE [reg |-> [bumped EXCEPT
                        !.inodes = Insert(@, ino,
                            [ino |-> ino, path |-> path,
                             attr |-> entry_attr(ino, entry)]),
                        !.path_to_ino = Insert(@, path, ino),
                        !.issued = Append(@, [ino |-> ino, path |-> path])],
             ino |-> ino, panic |-> FALSE]

\* the result is [reg, ino, panic]; on a panic nothing is inserted, but the
\* counter has already moved
get_or_create_inode(reg, path, entry) ==
    IF path \in DOMAIN reg.path_to_ino
    THEN [reg |-> reg, ino |-> reg.path_to_ino[path], panic |-> FALSE]
    ELSE LET ino == reg.next_ino
             bumped == [reg EXCEPT !.next_ino = ino + 1]
         IN IF ~(from_secs_f64_ok(entry.mtime) /\ from_secs_f64_ok(entry.ctime))
            THEN [reg |-> bumped, ino |-> 0, panic |-> TRUE]
            ELSE [reg |-> [bumped EXCEPT
                             !.inodes = Insert(@, ino,
                                 [ino |-> ino, path |-> path,
                                  attr |-> entry_attr(ino, entry)]),
                             !.path_to_ino = Insert(@, path, ino),
                             !.issued = Append(@, [ino |-> ino, path |-> path])],
                  ino |-> ino, panic |-> FALSE]

get_inode(inos, ino) == IF ino \in DOMAIN inos THEN Some(inos[ino]) ELSE None

to_str(name) == IF name = NonTextName THEN None ELSE Some(name)
to_string_lossy(name) == IF name = NonTextName THEN "\\u{FFFD}" ELSE name

path_from_parent_and_name(inos, parent, name) ==
    IF parent \notin DOMAIN inos THEN None
    ELSE IF ~to_str(name).some THEN None
    ELSE Some(JoinPath(inos[parent].path, to_str(name).val))

(***************************************************************************)
(* Replies and requests.                                                   *)
(***************************************************************************)
ReplyError(errno) == [kind |-> "error", errno |-> errno]
ReplyEntry(attr) == [kind |-> "entry", ttl |-> TTL, attr |-> attr]
ReplyAttr(attr) == [kind |-> "attr", ttl |-> TTL, attr |-> attr]
ReplyData(bytes) == [kind |-> "data", data |-> bytes]
ReplyWritten(n) == [kind |-> "written", size |-> n]
ReplyOk == [kind |-> "ok"]
ReplyDir(ents) == [kind |-> "ok", entries |-> ents]
ReplyCreated(attr, fh) == [kind |-> "created", ttl |-> TTL, attr |-> attr, fh |-> fh]

Req(what, path, ok) == [req |-> what, path |-> path, ok |-> ok]
ReqGet(path, body, ok) == [req |-> "get", path |-> path, body |-> body, ok |-> ok]
ReqPut(path, body, ok) == [req |-> "put", path |-> path, body |-> body, ok |-> ok]
ReqRename(from, to, ok) == [req |-> "rename", path |-> from, to |-> to, ok |-> ok]

\* what a callback leaves behind
Outcome(reg, fh, srv, rep, reqs, pan) ==
    [reg |-> reg, next_fh |-> fh, remote |-> srv,
     replies |-> rep, rpc |-> reqs, panic |-> pan]
Unchanged(rep, reqs) == Outcome(Registry, next_fh, remote, rep, reqs, FALSE)

Commit(c, outcome) ==
    /\ ~panicked
    /\ \E o \in {outcome} :
           /\ o.reg.next_ino <= MaxIno + 1
           /\ o.next_fh <= MaxFh + 1
           /\ inodes' = o.reg.inodes
           /\ path_to_ino' = o.reg.path_to_ino
           /\ next_ino' = o.reg.next_ino
           /\ issued' = o.reg.issued
           /\ next_fh' = o.next_fh
           /\ remote' = o.remote
           /\ panicked' = o.panic
           /\ pre' = Registry
           /\ call' = c
           /\ replies' = o.replies
           /\ rpc' = o.rpc
           /\ calls' = calls + 1
           /\ UNCHANGED <<fs_vars, threads, owner, poisoned>>

(***************************************************************************)
(* lookup                                                                  *)
(***************************************************************************)
\* the loop over the listing; the result is [reg, replies, panic]
RECURSIVE lookup_scan(_, _, _, _, _)
lookup_scan(reg, parent_path, name, entries, k) ==
    IF k > Len(entries)
    THEN [reg |-> reg, replies |-> <<ReplyError(ENOENT)>>, panic |-> FALSE]
    ELSE IF entries[k].name = to_string_lossy(name)
    THEN LET g == get_or_create_inode(reg,
                      JoinPath(parent_path, entries[k].name), entries[k])
         IN IF g.panic
            THEN [reg |-> g.reg, replies |-> <<>>, panic |-> TRUE]
            ELSE IF get_inode(g.reg.inodes, g.ino).some
            THEN [reg |-> g.reg,
                  replies |-> <<ReplyEntry(get_inode(g.reg.inodes, g.ino).val.attr)>>,
                  panic |-> FALSE]
            ELSE lookup_scan(g.reg, parent_path, name, entries, k + 1)
    ELSE lookup_scan(reg, parent_path, name, entries, k + 1)

\* (variant: a listing that failed is reported as an i/o error)
lookup_outcome_eio(parent, name, up) ==
    LET p == path_from_parent_and_name(inodes, parent, name)
    IN IF ~p.some THEN Unchanged(<<ReplyError(ENOENT)>>, <<>>)
       ELSE IF /\ p.val \in DOMAIN path_to_ino
               /\ get_inode(inodes, path_to_ino[p.val]).some
       THEN Unchanged(<<ReplyEntry(get_inode(inodes, path_to_ino[p.val]).val.attr)>>,
                      <<>>)
       ELSE LET parent_inode == get_inode(inodes, parent)
            IN IF ~parent_inode.some
               THEN Unchanged(<<ReplyError(ENOENT)>>, <<>>)
               ELSE LET ppath == parent_inode.val.path
                        ok == up /\ IsDirAt(remote, ppath)
                        reqs == <<Req("list", ppath, ok)>>
                    IN IF ~ok THEN Unchanged(<<ReplyError(EIO)>>, reqs)
                       ELSE LET entries == SrvList(remote, ppath)
                                r == lookup_scan(Registry, ppath, name, entries, 1)
                            IN Outcome(r.reg, next_fh, remote, r.replies, reqs, r.panic)

lookup_outcome(parent, name, up) ==
    LET p == path_from_parent_and_name(inodes, parent, name)
    IN IF ~p.some THEN Unchanged(<<ReplyError(ENOENT)>>, <<>>)
       ELSE IF /\ p.val \in DOMAIN path_to_ino
               /\ get_inode(inodes, path_to_ino[p.val]).some
       THEN Unchanged(<<ReplyEntry(get_inode(inodes, path_to_ino[p.val]).val.attr)>>,
                      <<>>)
       ELSE LET parent_inode == get_inode(inodes, parent)
            IN IF ~parent_inode.some
               THEN Unchanged(<<ReplyError(ENOENT)>>, <<>>)
               ELSE LET ppath == parent_inode.val.path
                        ok == up /\ IsDirAt(remote, ppath)
                        reqs == <<Req("list", ppath, ok)>>
                    IN IF ~ok THEN Unchanged(<<ReplyError(ENOENT)>>, reqs)
                       ELSE LET entries == SrvList(remote, ppath)
                                r == lookup_scan(Registry, ppath, name, entries, 1)
                            IN Outcome(r.reg, next_fh, remote, r.replies, reqs, r.panic)

lookup(parent, name, up) ==
    Commit([op |-> "lookup", parent |-> parent, name |-> name],
           lookup_outcome(parent, name, up))

(***************************************************************************)
(* getattr                                                                 *)
(***************************************************************************)
\* (variant: the parent's listing is fetched before the cached record is
\* replied)
getattr_outcome_refreshing(ino) ==
    IF get_inode(inodes, ino).some
    THEN Unchanged(<<ReplyAttr(get_inode(inodes, ino).val.attr)>>,
                   <<Req("list", ParentPath(get_inode(inodes, ino).val.path), TRUE)>>)
    ELSE Unchanged(<<ReplyError(ENOENT)>>, <<>>)

getattr_outcome(ino) ==
    IF get_inode(inodes, ino).some
    THEN Unchanged(<<ReplyAttr(get_inode(inodes, ino).val.attr)>>, <<>>)
    ELSE Unchanged(<<ReplyError(ENOENT)>>, <<>>)

getattr(ino) == Commit([op |-> "getattr", ino |-> ino], getattr_outcome(ino))

(***************************************************************************)
(* readdir                                                                 *)
(***************************************************************************)
DirEnt(ino, offset, kind, name) ==
    [ino |-> ino, offset |-> offset, kind |-> kind, name |-> name]
\* ReplyDirectory::add returns true, and adds nothing, when the buffer is full
buffer_full(ents, cap) == Len(ents) >= cap

\* the loop over entries.skip(..); the result is [reg, ents, panic]
RECURSIVE readdir_scan(_, _, _, _, _, _, _)
readdir_scan(reg, dir_path, entries, k, i, ents, cap) ==
    IF k > Len(entries) THEN [reg |-> reg, ents |-> ents, panic |-> FALSE]
    ELSE LET entry == entries[k]
             g == get_or_create_inode(reg, JoinPath(dir_path, entry.name), entry)
             kind == IF entry.is_dir THEN "Directory" ELSE "RegularFile"
         IN IF g.panic THEN [reg |-> g.reg, ents |-> ents, panic |-> TRUE]
            ELSE IF buffer_full(ents, cap)
            THEN [reg |-> g.reg, ents |-> ents, panic |-> FALSE]
            ELSE readdir_scan(g.reg, dir_path, entries, k + 1, i + 1,
                              Append(ents, DirEnt(g.ino, i + 1, kind, entry.name)),
                              cap)

Max(x, y) == IF x >= y THEN x ELSE y
Min(x, y) == IF x <= y THEN x ELSE y

readdir_outcome(ino, offset, cap, up) ==
    LET inode == get_inode(inodes, ino)
    IN IF ~inode.some THEN Unchanged(<<ReplyError(ENOENT)>>, <<>>)
       ELSE
       LET dir_path == inode.val.path
           ok == up /\ IsDirAt(remote, dir_path)
           reqs == <<Req("list", dir_path, ok)>>
       IN IF ~ok THEN Unchanged(<<ReplyError(EIO)>>, reqs)
          ELSE
          LET entries == SrvList(remote, dir_path)
              dot == DirEnt(ino, 1, "Directory", ".")
              dotdot == DirEnt(ino, 2, "Directory", "..")
          IN IF offset = 0 /\ buffer_full(<<>>, cap)
             THEN Unchanged(<<ReplyDir(<<>>)>>, reqs)
             ELSE
             LET ents1 == IF offset = 0 THEN <<dot>> ELSE <<>>
                 i1 == IF offset = 0 THEN 1 ELSE offset
             IN IF i1 = 1 /\ buffer_full(ents1, cap)
                THEN Unchanged(<<ReplyDir(ents1)>>, reqs)
                ELSE
                LET ents2 == IF i1 = 1 THEN Append(ents1, dotdot) ELSE ents1
                    i2 == IF i1 = 1 THEN 2 ELSE i1
                    r == readdir_scan(Registry, dir_path, entries,
                                      Max(i2 - 2, 0) + 1, i2, ents2, cap)
                IN Outcome(r.reg, next_fh, remote,
                           IF r.panic THEN <<>> ELSE <<ReplyDir(r.ents)>>,
                           reqs, r.panic)

readdir(ino, offset, cap, up) ==
    Commit([op |-> "readdir", ino |-> ino, offset |-> offset, cap |-> cap],
           readdir_outcome(ino, offset, cap, up))

(***************************************************************************)
(* read                                                                    *)
(***************************************************************************)
\* (variant: the end of the slice is not clamped to the object)
read_slice_unclamped(data, offset, size) ==
    IF offset >= Len(data) THEN <<>>
    ELSE [k \in 1..size |-> IF offset + k <= Len(data) THEN data[offset + k] ELSE 0]

\* the bytes read replies with, given the object fetched
read_slice(data, offset, size) ==
    LET start == offset
        end == Min(start + size, Len(data))
    IN IF start >= Len(data) THEN <<>> ELSE SubSeq(data, start + 1, end)

\* (variant: a fetch that failed resets the size cached for the inode)
read_outcome_poisoning(ino, offset, size, up) ==
    LET inode == get_inode(inodes, ino)
    IN IF ~inode.some THEN Unchanged(<<ReplyError(ENOENT)>>, <<>>)
       ELSE LET path == inode.val.path
                ok == up /\ IsFileAt(remote, path)
                reqs == <<ReqGet(path, IF ok THEN remote[path].data ELSE <<>>, ok)>>
            IN IF ok
               THEN Unchanged(<<ReplyData(read_slice(remote[path].data, offset, size))>>,
                              reqs)
               ELSE Outcome([Registry EXCEPT !.inodes[ino].attr.size = 0],
                            next_fh, remote, <<ReplyError(EIO)>>, reqs, FALSE)

read_outcome(ino, offset, size, up) ==
    LET inode == get_inode(inodes, ino)
    IN IF ~inode.some THEN Unchanged(<<ReplyError(ENOENT)>>, <<>>)
       ELSE LET path == inode.val.path
                ok == up /\ IsFileAt(remote, path)
                reqs == <<ReqGet(path, IF ok THEN remote[path].data ELSE <<>>, ok)>>
            IN IF ok
               THEN Unchanged(<<ReplyData(read_slice(remote[path].data, offset, size))>>,
                              reqs)
               ELSE Unchanged(<<ReplyError(EIO)>>, reqs)

read(ino, offset, size, up) ==
    Commit([op |-> "read", ino |-> ino, offset |-> offset, size |-> size],
           read_outcome(ino, offset, size, up))

(***************************************************************************)
(* write                                                                   *)
(***************************************************************************)
\* (variant: the new tail repeats the fill byte 1 instead of 0)
resize_fill_one(v, new_len) ==
    [k \in 1..(IF new_len >= Len(v) THEN new_len ELSE Len(v)) |->
        IF k <= Len(v) THEN v[k] ELSE 1]

\* Vec::resize(new_len, 0) when new_len exceeds the length
resize(v, new_len) ==
    [k \in 1..Max(new_len, Len(v)) |-> IF k <= Len(v) THEN v[k] ELSE 0]

\* (variant: the data lands at the start of the buffer, not at offset)
write_buffer_at_start(file_data, offset, data) ==
    LET end_offset == offset + Len(data)
        grown == IF end_offset > Len(file_data)
                 THEN resize(file_data, end_offset) ELSE file_data
    IN [k \in 1..Len(grown) |-> IF k <= Len(data) THEN data[k] ELSE grown[k]]

\* the buffer write sends back, given the object fetched
write_buffer(file_data, offset, data) ==
    LET end_offset == offset + Len(data)
        grown == IF end_offset > Len(file_data)
                 THEN resize(file_data, end_offset) ELSE file_data
    IN [k \in 1..Len(grown) |->
          IF offset < k /\ k <= end_offset THEN data[k - offset] ELSE grown[k]]

\* (variant: a fetch that failed leaves one stray byte in the buffer)
read_or_new_stray_byte(srv, path, read_ok) ==
    IF read_ok THEN srv[path].data ELSE <<1>>

\* the buffer write starts from: the object fetched, or nothing when the
\* fetch failed
read_or_new(srv, path, read_ok) ==
    IF read_ok THEN srv[path].data ELSE <<>>

write_outcome(ino, offset, data, up_read, up_write) ==
    LET inode == get_inode(inodes, ino)
    IN IF ~inode.some THEN Unchanged(<<ReplyError(ENOENT)>>, <<>>)
       ELSE
       LET path == inode.val.path
           read_ok == up_read /\ IsFileAt(remote, path)
           fetched == read_or_new(remote, path, read_ok)
           file_data == write_buffer(fetched, offset, data)
           write_ok == up_write /\ SrvCanPut(remote, path)
           reqs == <<ReqGet(path, fetched, read_ok), ReqPut(path, file_data, write_ok)>>
       IN IF write_ok
          THEN Outcome([Registry EXCEPT
                          !.inodes[ino].attr.size = Len(file_data),
                          !.inodes[ino].attr.mtime = NOW],
                       next_fh, SrvPut(remote, path, file_data),
                       <<ReplyWritten(Len(data))>>, reqs, FALSE)
          ELSE Unchanged(<<ReplyError(EIO)>>, reqs)

write(ino, offset, data, up_read, up_write) ==
    Commit([op |-> "write", ino |-> ino, offset |-> offset, data |-> data],
           write_outcome(ino, offset, data, up_read, up_write))

(***************************************************************************)
(* mkdir, create                                                           *)
(***************************************************************************)
new_entry(name, is_dir) ==
    [name |-> to_string_lossy(name), is_dir |-> is_dir, size |-> 0,
     mtime |-> NOW, ctime |-> NOW, mode |-> IF is_dir THEN 493 ELSE 420]

mkdir_outcome(parent, name, up) ==
    LET p == path_from_parent_and_name(inodes, parent, name)
    IN IF ~p.some THEN Unchanged(<<ReplyError(ENOENT)>>, <<>>)
       ELSE
       LET ok == up /\ SrvCanMkdir(remote, p.val)
           reqs == <<Req("mkdir", p.val, ok)>>
       IN IF ~ok THEN Unchanged(<<ReplyError(EIO)>>, reqs)
          ELSE
          LET g == get_or_create_inode(Registry, p.val, new_entry(name, TRUE))
              inode == get_inode(g.reg.inodes, g.ino)
          IN Outcome(g.reg, next_fh, SrvMkdir(remote, p.val),
                     IF g.panic THEN <<>>
                     ELSE IF inode.some THEN <<ReplyEntry(inode.val.attr)>>
                     ELSE <<ReplyError(EIO)>>,
                     reqs, g.panic)

mkdir(parent, name, up) ==
    Commit([op |-> "mkdir", parent |-> parent, name |-> name],
           mkdir_outcome(parent, name, up))

create_outcome(parent, name, up) ==
    LET p == path_from_parent_and_name(inodes, parent, name)
    IN IF ~p.some THEN Unchanged(<<ReplyError(ENOENT)>>, <<>>)
       ELSE
       LET ok == up /\ SrvCanPut(remote, p.val)
           reqs == <<ReqPut(p.val, <<>>, ok)>>
       IN IF ~ok THEN Unchanged(<<ReplyError(EIO)>>, reqs)
          ELSE
          LET g == get_or_create_inode(Registry, p.val, new_entry(name, FALSE))
              inode == get_inode(g.reg.inodes, g.ino)
          IN IF g.panic
             THEN Outcome(g.reg, next_fh, SrvPut(remote, p.val, <<>>), <<>>, reqs, TRUE)
             ELSE IF inode.some
             THEN Outcome(g.reg, next_fh + 1, SrvPut(remote, p.val, <<>>),
                          <<ReplyCreated(inode.val.attr, next_fh)>>, reqs, FALSE)
             ELSE Outcome(g.reg, next_fh, SrvPut(remote, p.val, <<>>),
                          <<ReplyError(EIO)>>, reqs, FALSE)

create(parent, name, up) ==
    Commit([op |-> "create", parent |-> parent, name |-> name],
           create_outcome(parent, name, up))

(***************************************************************************)
(* unlink, rmdir, rename                                                   *)
(***************************************************************************)
\* the cache update both callbacks make after a DELETE that succeeded
forget(reg, path) ==
    IF path \in DOMAIN reg.path_to_ino
    THEN [reg EXCEPT !.path_to_ino = Remove(@, path),
                     !.inodes = Remove(@, reg.path_to_ino[path])]
    ELSE reg

\* (variant: the cache entry is dropped before the server has confirmed)
delete_outcome_forgets_first(parent, name, up) ==
    LET p == path_from_parent_and_name(inodes, parent, name)
    IN IF ~p.some THEN Unchanged(<<ReplyError(ENOENT)>>, <<>>)
       ELSE
       LET ok == up /\ SrvCanDelete(remote, p.val)
           reqs == <<Req("delete", p.val, ok)>>
       IN IF ok
          THEN Outcome(forget(Registry, p.val), next_fh, SrvDelete(remote, p.val),
                       <<ReplyOk>>, reqs, FALSE)
          ELSE Outcome(forget(Registry, p.val), next_fh, remote,
                       <<ReplyError(EIO)>>, reqs, FALSE)

delete_outcome(parent, name, up) ==
    LET p == path_from_parent_and_name(inodes, parent, name)
    IN IF ~p.some THEN Unchanged(<<ReplyError(ENOENT)>>, <<>>)
       ELSE
       LET ok == up /\ SrvCanDelete(remote, p.val)
           reqs == <<Req("delete", p.val, ok)>>
       IN IF ok
          THEN Outcome(forget(Registry, p.val), next_fh, SrvDelete(remote, p.val),
                       <<ReplyOk>>, reqs, FALSE)
          ELSE Unchanged(<<ReplyError(EIO)>>, reqs)

unlink(parent, name, up) ==
    Commit([op |-> "unlink", parent |-> parent, name |-> name],
           delete_outcome(parent, name, up))

rmdir(parent, name, up) ==
    Commit([op |-> "rmdir", parent |-> parent, name |-> name],
           delete_outcome(parent, name, up))

\* (variant: the record keeps its old path)
rekey_keeps_record_path(reg, from_path, to_path) ==
    IF from_path \in DOMAIN reg.path_to_ino
    THEN [reg EXCEPT !.path_to_ino =
             Insert(Remove(@, from_path), to_path, reg.path_to_ino[from_path])]
    ELSE reg

\* (variant: the paths registered below the old path move with it)
rekey_with_descendants(reg, from_path, to_path) ==
    IF from_path \in DOMAIN reg.path_to_ino
    THEN LET below == { p \in DOMAIN reg.path_to_ino : Under(from_path, p) }
             kept == [p \in DOMAIN reg.path_to_ino \ below |-> reg.path_to_ino[p]]
             moved == [q \in { Rebase(from_path, to_path, p) : p \in below } |->
                         reg.path_to_ino[CHOOSE p \in below :
                                            Rebase(from_path, to_path, p) = q]]
         IN [reg EXCEPT
               !.path_to_ino = [q \in DOMAIN kept \cup DOMAIN moved |->
                                  IF q \in DOMAIN moved THEN moved[q] ELSE kept[q]],
               !.inodes = [i \in DOMAIN reg.inodes |->
                             IF Under(from_path, reg.inodes[i].path)
                             THEN [reg.inodes[i] EXCEPT
                                     !.path = Rebase(from_path, to_path, @)]
                             ELSE reg.inodes[i]]]
    ELSE reg

\* the cache update rename makes after a rename that succeeded
rekey(reg, from_path, to_path) ==
    IF from_path \in DOMAIN reg.path_to_ino
    THEN LET ino == reg.path_to_ino[from_path]
             moved == Insert(Remove(reg.path_to_ino, from_path), to_path, ino)
         IN IF ino \in DOMAIN reg.inodes
            THEN [reg EXCEPT !.path_to_ino = moved,
                             !.inodes[ino].path = to_path]
            ELSE [reg EXCEPT !.path_to_ino = moved]
    ELSE reg

rename_outcome(parent, name, newparent, newname, up) ==
    LET from_path == path_from_parent_and_name(inodes, parent, name)
        to_path == path_from_parent_and_name(inodes, newparent, newname)
    IN IF ~from_path.some THEN Unchanged(<<ReplyError(ENOENT)>>, <<>>)
       ELSE IF ~to_path.some THEN Unchanged(<<ReplyError(ENOENT)>>, <<>>)
       ELSE
       LET ok == up /\ SrvCanRename(remote, from_path.val, to_path.val)
           reqs == <<ReqRename(from_path.val, to_path.val, ok)>>
       IN IF ok
          THEN Outcome(rekey(Registry, from_path.val, to_path.val), next_fh,
                       SrvRename(remote, from_path.val, to_path.val),
                       <<ReplyOk>>, reqs, FALSE)
          ELSE Unchanged(<<ReplyError(EIO)>>, reqs)

rename(parent, name, newparent, newname, up) ==
    Commit([op |-> "rename", parent |-> parent, name |-> name,
            newparent |-> newparent, newname |-> newname],
           rename_outcome(parent, name, newparent, newname, up))

(***************************************************************************)
(* The adapter as a whole.                                                 *)
(***************************************************************************)
\* (variant: the root record is built with an empty path)
new_inodes_empty_root_path ==
    Insert(EmptyMap, ROOT_INO, [ino |-> ROOT_INO, path |-> "", attr |-> root_attr])

\* RemoteFS::new
new_inodes == Insert(EmptyMap, ROOT_INO,
                     [ino |-> ROOT_INO, path |-> "/", attr |-> root_attr])
new_path_to_ino == Insert(EmptyMap, "/", ROOT_INO)

\* what the server holds when the adapter is mounted
\* (one file carries an mtime from before the epoch)
InitRemote ==
    [p \in {"/", "/a", "/b", "/a/a", "/a/b"} |->
        CASE p = "/"    -> Obj(TRUE, <<>>, 0, 0)
          [] p = "/a"   -> Obj(TRUE, <<>>, 1, 0)
          [] p = "/b"   -> Obj(TRUE, <<>>, 0, 0)
          [] p = "/a/a" -> Obj(FALSE, <<2, 1>>, 0, 1)
          [] p = "/a/b" -> Obj(FALSE, <<>>, -1, 0)]

NoCall == [op |-> "new"]

NewRegistry == [inodes |-> new_inodes, path_to_ino |-> new_path_to_ino,
                next_ino |-> 2, issued |-> <<>>]

\* the registry after the root was listed once into a buffer that took
\* every entry
ListedRoot ==
    LET entries == SrvList(InitRemote, "/")
    IN readdir_scan(NewRegistry, "/", entries, 1, 2,
                    <<DirEnt(ROOT_INO, 1, "Directory", "."),
                      DirEnt(ROOT_INO, 2, "Directory", "..")>>,
                    Len(entries) + 2)

\* the threads that run callbacks, and the Mutexes of RemoteFS
Threads == {"t1", "t2"}
Mutexes == {"path_to_ino", "inodes", "next_ino", "next_fh"}
\* a thread that runs no callback
Idle == [pc |-> "idle", c |-> [op |-> "new"], path |-> "", to_path |-> "",
         inode |-> None, entries |-> <<>>, k |-> 0, i |-> 0, ents |-> <<>>,
         full_path |-> "", entry |-> None, got |-> 0, ret |-> "",
         fetched |-> <<>>, file_data |-> <<>>, want |-> <<>>, then |-> "",
         reply |-> <<>>]
\* callbacks run one at a time: no thread is inside one, no Mutex is held
NoThreads ==
    /\ threads = [t \in Threads |-> Idle]
    /\ owner = [m \in Mutexes |-> "free"]
    /\ poisoned = {}

\* fs::RemoteFS::new
fs_new == [inode_map |-> Insert(EmptyMap, 1, "/"),
           path_map |-> Insert(EmptyMap, "/", 1),
           next_inode |-> 2]
FsMaps == [inode_map |-> inode_map, path_map |-> path_map,
           next_inode |-> next_inode]
FsIs(maps) ==
    /\ inode_map = maps.inode_map
    /\ path_map = maps.path_map
    /\ next_inode = maps.next_inode

\* a run starts at the mount, or after the first listing of the root
Init ==
    /\ FsIs(fs_new)
    /\ NoThreads
    /\ next_fh = 1
    /\ remote = InitRemote
    /\ panicked = FALSE
    /\ pre = NewRegistry
    /\ calls = 0
    /\ \/ /\ inodes = new_inodes
          /\ path_to_ino = new_path_to_ino
          /\ next_ino = 2
          /\ issued = <<>>
          /\ call = NoCall
          /\ replies = <<>>
          /\ rpc = <<>>
       \/ /\ inodes = ListedRoot.reg.inodes
          /\ path_to_ino = ListedRoot.reg.path_to_ino
          /\ next_ino = ListedRoot.reg.next_ino
          /\ issued = ListedRoot.reg.issued
          /\ call = [op |-> "readdir", ino |-> ROOT_INO, offset |-> 0,
                     cap |-> Len(ListedRoot.ents)]
          /\ replies = <<ReplyDir(ListedRoot.ents)>>
          /\ rpc = <<Req("list", "/", TRUE)>>

\* arguments the kernel may pass
InoArgs == (DOMAIN inodes) \cup {next_ino}    \* next_ino is not registered
\* (parent, name): a name under a registered inode, a name under an inode
\* that is not registered, and a name that is not text
ParentNames ==
    { <<p, n>> : p \in DOMAIN inodes, n \in Names }
       \cup { <<next_ino, NameOrder[1]>>, <<ROOT_INO, NonTextName>> }
Offsets == 0..MaxOff
\* the registry sees only how long the data is; SpecRW varies the bytes
WriteData == { [k \in 1..n |-> 1] : n \in 1..MaxData }

Next ==
    \/ /\ calls < MaxCalls
       /\ \E pn \in ParentNames, up \in BOOLEAN :
            lookup(pn[1], pn[2], up)
    \/ /\ calls < MaxCalls
       /\ \E ino \in InoArgs :
            getattr(ino)
    \/ /\ calls < MaxCalls
       /\ \E ino \in InoArgs, offset \in Offsets, cap \in 0..MaxCap, up \in BOOLEAN :
            readdir(ino, offset, cap, up)
    \/ /\ calls < MaxCalls
       /\ \E ino \in InoArgs, offset \in Offsets, size \in 0..MaxSize, up \in BOOLEAN :
            read(ino, offset, size, up)
    \/ /\ calls < MaxCalls
       /\ \E ino \in InoArgs, offset \in Offsets, data \in WriteData,
             up_read \in BOOLEAN, up_write \in BOOLEAN :
            write(ino, offset, data, up_read, up_write)
    \/ /\ calls < MaxCalls
       /\ \E pn \in ParentNames, up \in BOOLEAN :
            mkdir(pn[1], pn[2], up)
    \/ /\ calls < MaxCalls
       /\ \E pn \in ParentNames, up \in BOOLEAN :
            unlink(pn[1], pn[2], up)
    \/ /\ calls < MaxCalls
       /\ \E pn \in ParentNames, up \in BOOLEAN :
            rmdir(pn[1], pn[2], up)
    \/ /\ calls < MaxCalls
       /\ \E old \in ParentNames, new \in ParentNames, up \in BOOLEAN :
            rename(old[1], old[2], new[1], new[2], up)
    \/ /\ calls < MaxCalls
       /\ \E pn \in ParentNames, up \in BOOLEAN :
            create(pn[1], pn[2], up)

Spec == Init /\ [][Next]_vars

(***************************************************************************)
(* Reads and writes on one file.  The run starts where lookup(1, "a") has  *)
(* just registered the file /a, whatever it holds.                         *)
(***************************************************************************)
RWContents == UNION { [1..n -> DataBytes] : n \in 0..RWMaxLen }
RWRemote(bytes) ==
    [p \in {"/", "/a"} |->
        IF p = "/" THEN Obj(TRUE, <<>>, 0, 0) ELSE Obj(FALSE, bytes, 0, 0)]
RWRegistry(srv) ==
    get_or_create_inode(NewRegistry, "/a", SrvEntry(srv, "/", "a")).reg

InitRW ==
    \E bytes \in RWContents :
       /\ remote = RWRemote(bytes)
       /\ inodes = RWRegistry(remote).inodes
       /\ path_to_ino = RWRegistry(remote).path_to_ino
       /\ next_ino = RWRegistry(remote).next_ino
       /\ issued = RWRegistry(remote).issued
       /\ next_fh = 1
       /\ panicked = FALSE
       /\ pre = NewRegistry
       /\ call = [op |-> "lookup", parent |-> ROOT_INO, name |-> "a"]
       /\ replies = <<ReplyEntry(inodes[2].attr)>>
       /\ rpc = <<Req("list", "/", TRUE)>>
       /\ calls = 0
       /\ FsIs(fs_new)
       /\ NoThreads

RWData == UNION { [1..n -> DataBytes] : n \in 1..RWMaxData }

NextRW ==
    \/ /\ calls < RWMaxCalls
       /\ \E ino \in InoArgs, offset \in 0..RWMaxOff, size \in 0..RWMaxSize,
             up \in BOOLEAN :
            read(ino, offset, size, up)
    \/ /\ calls < RWMaxCalls
       /\ \E ino \in InoArgs, offset \in 0..RWMaxOff, data \in RWData,
             up_read \in BOOLEAN, up_write \in BOOLEAN :
            write(ino, offset, data, up_read, up_write)

SpecRW == InitRW /\ [][NextRW]_vars

(***************************************************************************)
(* Cached attributes against a server that other clients write to.  The    *)
(* run starts where lookup(1, "a") has just registered the file /a,        *)
(* whatever it holds.                                                      *)
(***************************************************************************)
\* another client appends a byte to a file the server holds
remote_changes(path) ==
    /\ ~panicked
    /\ remote' = SrvPut(remote, path, Append(remote[path].data, 1))
    /\ pre' = Registry
    /\ call' = [op |-> "remote_changes", path |-> path]
    /\ replies' = <<>>
    /\ rpc' = <<>>
    /\ calls' = calls + 1
    /\ UNCHANGED <<inodes, path_to_ino, next_ino, next_fh, issued, panicked>>
    /\ UNCHANGED <<fs_vars, threads, owner, poisoned>>

NextAttr ==
    \/ /\ calls < AttrMaxCalls
       /\ \E path \in { p \in DOMAIN remote : ~remote[p].is_dir } :
            remote_changes(path)
    \/ /\ calls < AttrMaxCalls
       /\ \E pn \in ParentNames, up \in BOOLEAN :
            lookup(pn[1], pn[2], up)
    \/ /\ calls < AttrMaxCalls
       /\ \E ino \in InoArgs :
            getattr(ino)
    \/ /\ calls < AttrMaxCalls
       /\ \E ino \in InoArgs, offset \in Offsets, cap \in 0..MaxCap, up \in BOOLEAN :
            readdir(ino, offset, cap, up)

SpecAttr == InitRW /\ [][NextAttr]_vars

(***************************************************************************)
(* The dispatcher of fs/mod.rs.  It keeps two maps between inode numbers   *)
(* and paths, caches no attributes, and asks the server through the async  *)
(* client of remote/mod.rs, one blocking request per callback.             *)
(***************************************************************************)
fs_get_or_create_inode(maps, path) ==
    IF path \in DOMAIN maps.path_map
    THEN [maps |-> maps, ino |-> maps.path_map[path]]
    ELSE LET ino == maps.next_inode
         IN [maps |-> [inode_map |-> Insert(maps.inode_map, ino, path),
                       path_map |-> Insert(maps.path_map, path, ino),
                       next_inode |-> ino + 1],
             ino |-> ino]

get_path(imap, ino) == IF ino \in DOMAIN imap THEN Some(imap[ino]) ELSE None

\* a time before the epoch becomes the epoch
system_time_to_timespec(st) == IF st >= 0 THEN st ELSE 0

\* remote::Client::get_file_info, on an answer that was a success
get_file_info(srv, path) ==
    [size |-> Len(srv[path].data), is_dir |-> FALSE, modified |-> srv[path].mtime]

\* the FileAttr lookup and getattr build from a FileInfo
file_info_attr(ino, file_info) ==
    LET t == system_time_to_timespec(file_info.modified)
    IN [ino |-> ino,
        size |-> file_info.size,
        blocks |-> (file_info.size + 511) \div 512,
        atime |-> t, mtime |-> t, ctime |-> t, crtime |-> t,
        kind |-> IF file_info.is_dir THEN "Directory" ELSE "RegularFile",
        perm |-> IF file_info.is_dir THEN 493 ELSE 420,
        nlink |-> IF file_info.is_dir THEN 2 ELSE 1,
        uid |-> 1000, gid |-> 1000, rdev |-> 0, flags |-> 0]

\* the FileAttr getattr builds for the root and mkdir for a new directory
directory_attr(ino) ==
    [ino |-> ino, size |-> 0, blocks |-> 0,
     atime |-> 0, mtime |-> 0, ctime |-> 0, crtime |-> 0,
     kind |-> "Directory", perm |-> 493, nlink |-> 2,
     uid |-> 1000, gid |-> 1000, rdev |-> 0, flags |-> 0]

\* what a callback of fs/mod.rs leaves behind
FsOutcome(maps, srv, rep, reqs) ==
    [maps |-> maps, remote |-> srv, replies |-> rep, rpc |-> reqs]
FsUnchanged(rep, reqs) == FsOutcome(FsMaps, remote, rep, reqs)

FsCommit(c, outcome) ==
    \E o \in {outcome} :
       /\ o.maps.next_inode <= FsMaxIno + 1
       /\ inode_map' = o.maps.inode_map
       /\ path_map' = o.maps.path_map
       /\ next_inode' = o.maps.next_inode
       /\ remote' = o.remote
       /\ pre' = [maps |-> FsMaps, remote |-> remote]
       /\ call' = c
       /\ replies' = o.replies
       /\ rpc' = o.rpc
       /\ calls' = calls + 1
       /\ UNCHANGED <<inodes, path_to_ino, next_ino, next_fh, issued, panicked,
                    threads, owner, poisoned>>

fs_lookup_outcome(parent, name, up) ==
    LET parent_path == get_path(inode_map, parent)
    IN IF ~parent_path.some THEN FsUnchanged(<<ReplyError(ENOENT)>>, <<>>)
       ELSE
       LET child == JoinPath(parent_path.val, to_string_lossy(name))
           ok == up /\ Exists(remote, child)
           reqs == <<Req("head", child, ok)>>
       IN IF ok
          THEN LET g == fs_get_or_create_inode(FsMaps, child)
               IN FsOutcome(g.maps, remote,
                            <<ReplyEntry(file_info_attr(g.ino,
                                            get_file_info(remote, child)))>>,
                            reqs)
          ELSE FsUnchanged(<<ReplyError(ENOENT)>>, reqs)

fs_lookup(parent, name, up) ==
    FsCommit([op |-> "fs::lookup", parent |-> parent, name |-> name],
             fs_lookup_outcome(parent, name, up))

fs_getattr_outcome(ino, up) ==
    IF ino = 1 THEN FsUnchanged(<<ReplyAttr(directory_attr(1))>>, <<>>)
    ELSE
    LET path == get_path(inode_map, ino)
    IN IF ~path.some THEN FsUnchanged(<<ReplyError(ENOENT)>>, <<>>)
       ELSE
       LET ok == up /\ Exists(remote, path.val)
           reqs == <<Req("head", path.val, ok)>>
       IN IF ok
          THEN FsUnchanged(<<ReplyAttr(file_info_attr(ino,
                                          get_file_info(remote, path.val)))>>,
                           reqs)
          ELSE FsUnchanged(<<ReplyError(ENOENT)>>, reqs)

fs_getattr(ino, up) ==
    FsCommit([op |-> "fs::getattr", ino |-> ino], fs_getattr_outcome(ino, up))

fs_read_outcome(ino, offset, size, up) ==
    LET path == get_path(inode_map, ino)
    IN IF ~path.some THEN FsUnchanged(<<ReplyError(ENOENT)>>, <<>>)
       ELSE
       LET ok == up /\ IsFileAt(remote, path.val)
           body == IF ok THEN remote[path.val].data ELSE <<>>
           reqs == <<ReqGet(path.val, body, ok)>>
       IN IF ok THEN FsUnchanged(<<ReplyData(body)>>, reqs)
          ELSE FsUnchanged(<<ReplyError(EIO)>>, reqs)

fs_read(ino, offset, size, up) ==
    FsCommit([op |-> "fs::read", ino |-> ino, offset |-> offset, size |-> size],
             fs_read_outcome(ino, offset, size, up))

\* remote::Client::write_file sends data as the body and leaves _offset out
fs_write_outcome(ino, offset, data, up) ==
    LET path == get_path(inode_map, ino)
    IN IF ~path.some THEN FsUnchanged(<<ReplyError(ENOENT)>>, <<>>)
       ELSE
       LET ok == up /\ SrvCanPut(remote, path.val)
           reqs == <<ReqPut(path.val, data, ok)>>
       IN IF ok
          THEN FsOutcome(FsMaps, SrvPut(remote, path.val, data),
                         <<ReplyWritten(Len(data))>>, reqs)
          ELSE FsUnchanged(<<ReplyError(EIO)>>, reqs)

fs_write(ino, offset, data, up) ==
    FsCommit([op |-> "fs::write", ino |-> ino, offset |-> offset, data |-> data],
             fs_write_outcome(ino, offset, data, up))

\* reply.add, whose result readdir drops
reply_add(ents, ent, cap) ==
    IF buffer_full(ents, cap) THEN ents ELSE Append(ents, ent)

\* the loop over entries.iter().enumerate().skip(offset); k - 1 is the
\* index i of the entry; the result is [maps, ents]
RECURSIVE fs_readdir_scan(_, _, _, _, _, _)
fs_readdir_scan(maps, path, entries, k, ents, cap) ==
    IF k > Len(entries) THEN [maps |-> maps, ents |-> ents]
    ELSE LET entry == entries[k]
             g == fs_get_or_create_inode(maps, JoinPath(path, entry.name))
             file_type == IF entry.is_dir THEN "Directory" ELSE "RegularFile"
         IN fs_readdir_scan(g.maps, path, entries, k + 1,
                            reply_add(ents,
                                      DirEnt(g.ino, (k - 1) + 2, file_type,
                                             entry.name),
                                      cap),
                            cap)

fs_readdir_outcome(ino, offset, cap, up) ==
    LET path == get_path(inode_map, ino)
    IN IF ~path.some THEN FsUnchanged(<<ReplyError(ENOENT)>>, <<>>)
       ELSE
       LET ents0 == IF offset = 0
                    THEN reply_add(reply_add(<<>>,
                                      DirEnt(ino, 0, "Directory", "."), cap),
                                   DirEnt(ino, 1, "Directory", ".."), cap)
                    ELSE <<>>
           ok == up /\ IsDirAt(remote, path.val)
           reqs == <<Req("list", path.val, ok)>>
       IN IF ok
          THEN LET r == fs_readdir_scan(FsMaps, path.val,
                                        SrvList(remote, path.val),
                                        offset + 1, ents0, cap)
               IN FsOutcome(r.maps, remote, <<ReplyDir(r.ents)>>, reqs)
          ELSE FsUnchanged(<<ReplyError(EIO)>>, reqs)

fs_readdir(ino, offset, cap, up) ==
    FsCommit([op |-> "fs::readdir", ino |-> ino, offset |-> offset, cap |-> cap],
             fs_readdir_outcome(ino, offset, cap, up))

fs_mkdir_outcome(parent, name, up) ==
    LET parent_path == get_path(inode_map, parent)
    IN IF ~parent_path.some THEN FsUnchanged(<<ReplyError(ENOENT)>>, <<>>)
       ELSE
       LET new_dir_path == JoinPath(parent_path.val, to_string_lossy(name))
           ok == up /\ SrvCanMkdir(remote, new_dir_path)
           reqs == <<Req("mkdir", new_dir_path, ok)>>
       IN IF ok
          THEN LET g == fs_get_or_create_inode(FsMaps, new_dir_path)
               IN FsOutcome(g.maps, SrvMkdir(remote, new_dir_path),
                            <<ReplyEntry(directory_attr(g.ino))>>, reqs)
          ELSE FsUnchanged(<<ReplyError(EIO)>>, reqs)

fs_mkdir(parent, name, up) ==
    FsCommit([op |-> "fs::mkdir", parent |-> parent, name |-> name],
             fs_mkdir_outcome(parent, name, up))

fs_unlink_outcome(parent, name, up) ==
    LET parent_path == get_path(inode_map, parent)
    IN IF ~parent_path.some THEN FsUnchanged(<<ReplyError(ENOENT)>>, <<>>)
       ELSE
       LET file_path == JoinPath(parent_path.val, to_string_lossy(name))
           ok == up /\ SrvCanDelete(remote, file_path)
           reqs == <<Req("delete", file_path, ok)>>
       IN IF ok
          THEN FsOutcome(FsMaps, SrvDelete(remote, file_path), <<ReplyOk>>, reqs)
          ELSE FsUnchanged(<<ReplyError(EIO)>>, reqs)

fs_unlink(parent, name, up) ==
    FsCommit([op |-> "fs::unlink", parent |-> parent, name |-> name],
             fs_unlink_outcome(parent, name, up))

\* what the server holds when this dispatcher is mounted: a file /a and a
\* directory /b
FsRemote(bytes) ==
    [p \in {"/", "/a", "/b"} |->
        IF p = "/a" THEN Obj(FALSE, bytes, 0, 0) ELSE Obj(TRUE, <<>>, 0, 0)]

\* a run starts at the mount, or after lookup(1, "a") registered the file
InitFs ==
    /\ \E bytes \in {<<>>, <<2, 1>>} : remote = FsRemote(bytes)
    /\ inodes = new_inodes
    /\ path_to_ino = new_path_to_ino
    /\ next_ino = 2
    /\ issued = <<>>
    /\ next_fh = 1
    /\ panicked = FALSE
    /\ pre = [maps |-> fs_new, remote |-> remote]
    /\ calls = 0
    /\ NoThreads
    /\ \/ /\ FsIs(fs_new)
          /\ call = NoCall
          /\ replies = <<>>
          /\ rpc = <<>>
       \/ /\ FsIs(fs_get_or_create_inode(fs_new, "/a").maps)
          /\ call = [op |-> "fs::lookup", parent |-> 1, name |-> "a"]
          /\ replies = <<ReplyEntry(file_info_attr(2, get_file_info(remote, "/a")))>>
          /\ rpc = <<Req("head", "/a", TRUE)>>

\* (parent, name): a name under a registered inode, a name under an inode
\* that is not registered, and a name that is not text
FsParentNames ==
    { <<p, n>> : p \in DOMAIN inode_map, n \in Names }
       \cup { <<next_inode, NameOrder[1]>>, <<1, NonTextName>> }

NextFs ==
    \/ /\ calls < FsMaxCalls
       /\ \E pn \in FsParentNames, up \in BOOLEAN :
            fs_lookup(pn[1], pn[2], up)
    \/ /\ calls < FsMaxCalls
       /\ \E ino \in (DOMAIN inode_map) \cup {next_inode}, up \in BOOLEAN :
            fs_getattr(ino, up)
    \/ /\ calls < FsMaxCalls
       /\ \E ino \in (DOMAIN inode_map) \cup {next_inode},
             offset \in 0..FsMaxOff, size \in 1..FsMaxSize,
             up \in BOOLEAN :
            fs_read(ino, offset, size, up)
    \/ /\ calls < FsMaxCalls
       /\ \E ino \in (DOMAIN inode_map) \cup {next_inode},
             offset \in 0..FsMaxOff,
             data \in { [k \in 1..n |-> 1] : n \in 1..FsMaxData },
             up \in BOOLEAN :
            fs_write(ino, offset, data, up)
    \/ /\ calls < FsMaxCalls
       /\ \E ino \in (DOMAIN inode_map) \cup {next_inode},
             offset \in 0..FsMaxOff, cap \in 0..FsMaxCap,
             up \in BOOLEAN :
            fs_readdir(ino, offset, cap, up)
    \/ /\ calls < FsMaxCalls
       /\ \E pn \in FsParentNames, up \in BOOLEAN :
            fs_mkdir(pn[1], pn[2], up)
    \/ /\ calls < FsMaxCalls
       /\ \E pn \in FsParentNames, up \in BOOLEAN :
            fs_unlink(pn[1], pn[2], up)

SpecFs == InitFs /\ [][NextFs]_vars

(***************************************************************************)
(* Two callbacks of filesystem.rs side by side.  Each thread of Threads    *)
(* runs one callback, a step at a time: a step is one lock().unwrap(), one *)
(* request to the server, or the statements made under the guards held.    *)
(* A guard is dropped where its scope ends.  lock() on a Mutex that a      *)
(* panic poisoned returns Err, and unwrap() panics in turn.                *)
(***************************************************************************)
Held(t) == { m \in Mutexes : owner[m] = t }
Shared == [inodes |-> inodes, path_to_ino |-> path_to_ino,
           next_ino |-> next_ino, next_fh |-> next_fh, remote |-> remote,
           issued |-> issued, rpc |-> rpc]

\* the Mutexes each critical section locks, in the order it locks them
get_or_create_inode_locks == <<"path_to_ino", "inodes", "next_ino">>
lookup_locks == <<"path_to_ino">>
unlink_locks == <<"path_to_ino", "inodes">>
\* (variant: rename locks path_to_ino alone)
rename_locks_path_only == <<"path_to_ino">>
\* (variant: rename locks inodes first)
rename_locks_inodes_first == <<"inodes", "path_to_ino">>
rename_locks == <<"path_to_ino", "inodes">>

\* (variant: the guard lookup's cache check took lives to the end of lookup)
after_cache_check_kept(held) == held
\* the block of lookup's cache check ends: its guard is dropped
after_cache_check(held) == held \ {"path_to_ino"}

\* thread t goes on as r, holding `held`, and leaves the shared state as s
MtStep(t, r, held, s) ==
    /\ threads' = [threads EXCEPT ![t] = r]
    /\ owner' = [m \in Mutexes |->
                   IF m \in held THEN t
                   ELSE IF owner[m] = t THEN "free" ELSE owner[m]]
    /\ inodes' = s.inodes
    /\ path_to_ino' = s.path_to_ino
    /\ next_ino' = s.next_ino
    /\ next_fh' = s.next_fh
    /\ remote' = s.remote
    /\ issued' = s.issued
    /\ rpc' = s.rpc
    /\ UNCHANGED <<poisoned, panicked, calls, pre, call, replies, fs_vars>>

\* thread t unwinds: the guards it holds are dropped and poison their Mutex
MtPanic(t, s) ==
    /\ threads' = [threads EXCEPT ![t].pc = "panicked"]
    /\ owner' = [m \in Mutexes |-> IF owner[m] = t THEN "free" ELSE owner[m]]
    /\ poisoned' = poisoned \cup Held(t)
    /\ panicked' = TRUE
    /\ inodes' = s.inodes
    /\ path_to_ino' = s.path_to_ino
    /\ next_ino' = s.next_ino
    /\ next_fh' = s.next_fh
    /\ remote' = s.remote
    /\ issued' = s.issued
    /\ rpc' = s.rpc
    /\ UNCHANGED <<calls, pre, call, replies, fs_vars>>

\* self.m.lock().unwrap(), the statements under the guard, and its drop
WithMutex(t, m, r, held, s) ==
    \/ /\ m \in poisoned
       /\ MtPanic(t, Shared)
    \/ /\ m \notin poisoned
       /\ owner[m] = "free"
       /\ MtStep(t, r, held, s)

finish(th, rep) == [th EXCEPT !.pc = "done", !.reply = <<rep>>]
goto(th, pc) == [th EXCEPT !.pc = pc]
acquire(th, locks, then) ==
    [th EXCEPT !.pc = "lock", !.want = locks, !.then = then]
call_get_or_create_inode(th, path, entry, ret) ==
    [acquire(th, get_or_create_inode_locks, "intern")
        EXCEPT !.full_path = path, !.entry = Some(entry), !.ret = ret]

\* a callback enters on thread t
mt_call(t, c) ==
    /\ threads[t].pc = "idle"
    /\ calls' = calls + 1
    /\ threads' = [threads EXCEPT ![t] =
          [Idle EXCEPT !.c = c,
                       !.pc = IF c.op \in {"getattr", "readdir", "read", "write"}
                              THEN "get_inode" ELSE "path"]]
    /\ UNCHANGED <<inodes, path_to_ino, next_ino, next_fh, issued, panicked,
                   remote, rpc, pre, call, replies, fs_vars, owner, poisoned>>

\* path_from_parent_and_name, and where its caller goes on
mt_path_from_parent_and_name(t) ==
    LET th == threads[t]
        c == th.c
        p == IF th.pc = "path"
             THEN path_from_parent_and_name(inodes, c.parent, c.name)
             ELSE path_from_parent_and_name(inodes, c.newparent, c.newname)
        th1 == [th EXCEPT !.path = p.val]
        r == IF ~p.some THEN finish(th, ReplyError(ENOENT))
             ELSE IF th.pc = "to_path"
             THEN goto([th EXCEPT !.to_path = p.val], "rename")
             ELSE CASE c.op = "lookup" -> acquire(th1, lookup_locks, "cached")
                    [] c.op = "mkdir" -> goto(th1, "create_directory")
                    [] c.op = "create" -> goto(th1, "write_file")
                    [] c.op \in {"unlink", "rmdir"} -> goto(th1, "delete")
                    [] c.op = "rename" -> goto(th1, "to_path")
    IN /\ th.pc \in {"path", "to_path"}
       /\ WithMutex(t, "inodes", r, Held(t), Shared)

\* one lock().unwrap() of a critical section
mt_lock(t) ==
    LET th == threads[t]
        m == Head(th.want)
        r == IF Len(th.want) = 1
             THEN goto([th EXCEPT !.want = <<>>], th.then)
             ELSE [th EXCEPT !.want = Tail(@)]
    IN /\ th.pc = "lock"
       /\ WithMutex(t, m, r, Held(t) \cup {m}, Shared)

\* lookup's cache check: path_to_ino.get(&path) under the guard
mt_cached(t) ==
    LET th == threads[t]
    IN /\ th.pc = "cached"
       /\ IF th.path \in DOMAIN path_to_ino
          THEN MtStep(t, goto([th EXCEPT !.got = path_to_ino[th.path]],
                              "cached_inode"),
                      Held(t), Shared)
          ELSE MtStep(t, goto(th, "get_inode"), after_cache_check(Held(t)),
                      Shared)

\* get_inode, and where its caller goes on
mt_get_inode(t) ==
    LET th == threads[t]
        c == th.c
        ino == IF th.pc = "get_inode"
               THEN (IF c.op = "lookup" THEN c.parent ELSE c.ino)
               ELSE th.got
        inode == get_inode(inodes, ino)
        th1 == [th EXCEPT !.inode = inode]
        first == IF ~inode.some THEN finish(th, ReplyError(ENOENT))
                 ELSE CASE c.op \in {"lookup", "readdir"} ->
                              goto(th1, "list_directory")
                        [] c.op = "getattr" ->
                              finish(th1, ReplyAttr(inode.val.attr))
                        [] c.op \in {"read", "write"} -> goto(th1, "read_file")
        interned == IF inode.some
                    THEN (IF c.op = "create" THEN goto(th1, "next_fh")
                          ELSE finish(th1, ReplyEntry(inode.val.attr)))
                    ELSE finish(th, ReplyError(IF c.op = "lookup" THEN ENOENT
                                               ELSE EIO))
    IN /\ th.pc \in {"get_inode", "cached_inode", "interned_inode"}
       /\ CASE th.pc = "get_inode" ->
                  WithMutex(t, "inodes", first, Held(t), Shared)
            [] th.pc = "interned_inode" ->
                  WithMutex(t, "inodes", interned, Held(t), Shared)
            [] th.pc = "cached_inode" ->
                  IF inode.some
                  THEN WithMutex(t, "inodes",
                                 finish(th1, ReplyEntry(inode.val.attr)),
                                 {}, Shared)
                  ELSE WithMutex(t, "inodes", goto(th, "get_inode"),
                                 after_cache_check(Held(t)), Shared)

\* readdir's loop: reply.add of the entry interned, then the next entry
readdir_next(th) ==
    IF th.k > Len(th.entries) THEN finish(th, ReplyDir(th.ents))
    ELSE call_get_or_create_inode(th,
             JoinPath(th.inode.val.path, th.entries[th.k].name),
             th.entries[th.k], "add")
readdir_add(th) ==
    LET entry == th.entry.val
        kind == IF entry.is_dir THEN "Directory" ELSE "RegularFile"
    IN IF buffer_full(th.ents, th.c.cap) THEN finish(th, ReplyDir(th.ents))
       ELSE readdir_next([th EXCEPT
               !.ents = Append(@, DirEnt(th.got, th.i + 1, kind, entry.name)),
               !.i = @ + 1,
               !.k = @ + 1])

\* get_or_create_inode returns ino
returned(th, ino) ==
    LET th1 == [th EXCEPT !.got = ino]
    IN IF th.ret = "add" THEN readdir_add(th1) ELSE goto(th1, "interned_inode")

\* get_or_create_inode under its three guards: the early return, or the
\* number taken, the attributes built and inodes.insert
mt_get_or_create_inode(t) ==
    LET th == threads[t]
        g == get_or_create_inode(Registry, th.full_path, th.entry.val)
    IN /\ th.pc = "intern"
       /\ IF ~g.panic /\ g.reg.next_ino = next_ino
          THEN MtStep(t, returned(th, g.ino), {}, Shared)
          ELSE IF g.panic
          THEN MtPanic(t, [Shared EXCEPT !.next_ino = g.reg.next_ino])
          ELSE MtStep(t, goto([th EXCEPT !.got = g.ino], "insert_path"),
                      Held(t),
                      [Shared EXCEPT !.next_ino = g.reg.next_ino,
                                     !.inodes = g.reg.inodes,
                                     !.issued = g.reg.issued])

\* path_to_ino.insert, and the return of get_or_create_inode
mt_insert_path(t) ==
    LET th == threads[t]
    IN /\ th.pc = "insert_path"
       /\ MtStep(t, returned(th, th.got), {},
                 [Shared EXCEPT !.path_to_ino = Insert(@, th.full_path, th.got)])

\* api_client.list_directory, in lookup and in readdir
mt_list_directory(t, up) ==
    LET th == threads[t]
        c == th.c
        dir == th.inode.val.path
        ok == up /\ IsDirAt(remote, dir)
        entries == SrvList(remote, dir)
        s == [Shared EXCEPT !.rpc = <<[by |-> t, sent |-> Req("list", dir, ok)]>>]
        hits == { k \in 1..Len(entries) :
                     entries[k].name = to_string_lossy(c.name) }
        found == CHOOSE k \in hits : \A j \in hits : k <= j
        looked == IF ~ok \/ hits = {} THEN finish(th, ReplyError(ENOENT))
                  ELSE call_get_or_create_inode(th,
                           JoinPath(dir, entries[found].name), entries[found],
                           "reply")
        dot == DirEnt(c.ino, 1, "Directory", ".")
        dotdot == DirEnt(c.ino, 2, "Directory", "..")
        ents1 == IF c.offset = 0 THEN <<dot>> ELSE <<>>
        i1 == IF c.offset = 0 THEN 1 ELSE c.offset
        ents2 == IF i1 = 1 THEN Append(ents1, dotdot) ELSE ents1
        i2 == IF i1 = 1 THEN 2 ELSE i1
        listed == IF ~ok THEN finish(th, ReplyError(EIO))
                  ELSE IF c.offset = 0 /\ buffer_full(<<>>, c.cap)
                  THEN finish(th, ReplyDir(<<>>))
                  ELSE IF i1 = 1 /\ buffer_full(ents1, c.cap)
                  THEN finish(th, ReplyDir(ents1))
                  ELSE readdir_next([th EXCEPT !.entries = entries,
                                               !.ents = ents2,
                                               !.i = i2,
                                               !.k = Max(i2 - 2, 0) + 1])
    IN /\ th.pc = "list_directory"
       /\ MtStep(t, IF c.op = "lookup" THEN looked ELSE listed, Held(t), s)

\* api_client.read_file, in read and in write
mt_read_file(t, up) ==
    LET th == threads[t]
        c == th.c
        path == th.inode.val.path
        ok == up /\ IsFileAt(remote, path)
        fetched == read_or_new(remote, path, ok)
        s == [Shared EXCEPT !.rpc = <<[by |-> t, sent |-> ReqGet(path, fetched, ok)]>>]
        r == IF c.op = "read"
             THEN (IF ok THEN finish(th, ReplyData(read_slice(fetched, c.offset,
                                                              c.size)))
                   ELSE finish(th, ReplyError(EIO)))
             ELSE goto([th EXCEPT !.fetched = fetched,
                                  !.file_data = write_buffer(fetched, c.offset,
                                                             c.data)],
                       "write_file")
    IN /\ th.pc = "read_file"
       /\ MtStep(t, r, Held(t), s)

\* api_client.write_file, in write and in create
mt_write_file(t, up) ==
    LET th == threads[t]
        c == th.c
        path == IF c.op = "write" THEN th.inode.val.path ELSE th.path
        body == IF c.op = "write" THEN th.file_data ELSE <<>>
        ok == up /\ SrvCanPut(remote, path)
        s == [Shared EXCEPT
                !.rpc = <<[by |-> t, sent |-> ReqPut(path, body, ok)]>>,
                !.remote = IF ok THEN SrvPut(remote, path, body) ELSE @]
        r == IF ~ok THEN finish(th, ReplyError(EIO))
             ELSE IF c.op = "write" THEN goto(th, "write_attr")
             ELSE call_get_or_create_inode(th, path, new_entry(c.name, FALSE),
                                           "reply")
    IN /\ th.pc = "write_file"
       /\ MtStep(t, r, Held(t), s)

\* api_client.create_directory, in mkdir
mt_create_directory(t, up) ==
    LET th == threads[t]
        ok == up /\ SrvCanMkdir(remote, th.path)
        s == [Shared EXCEPT
                !.rpc = <<[by |-> t, sent |-> Req("mkdir", th.path, ok)]>>,
                !.remote = IF ok THEN SrvMkdir(remote, th.path) ELSE @]
        r == IF ~ok THEN finish(th, ReplyError(EIO))
             ELSE call_get_or_create_inode(th, th.path,
                                           new_entry(th.c.name, TRUE), "reply")
    IN /\ th.pc = "create_directory"
       /\ MtStep(t, r, Held(t), s)

\* api_client.delete, in unlink and in rmdir
mt_delete(t, up) ==
    LET th == threads[t]
        ok == up /\ SrvCanDelete(remote, th.path)
        s == [Shared EXCEPT
                !.rpc = <<[by |-> t, sent |-> Req("delete", th.path, ok)]>>,
                !.remote = IF ok THEN SrvDelete(remote, th.path) ELSE @]
        r == IF ~ok THEN finish(th, ReplyError(EIO))
             ELSE acquire(th, unlink_locks, "forget_path")
    IN /\ th.pc = "delete"
       /\ MtStep(t, r, Held(t), s)

\* api_client.rename, in rename
mt_rename(t, up) ==
    LET th == threads[t]
        ok == up /\ SrvCanRename(remote, th.path, th.to_path)
        s == [Shared EXCEPT
                !.rpc = <<[by |-> t, sent |-> ReqRename(th.path, th.to_path, ok)]>>,
                !.remote = IF ok THEN SrvRename(remote, th.path, th.to_path)
                           ELSE @]
        r == IF ~ok THEN finish(th, ReplyError(EIO))
             ELSE acquire(th, rename_locks, "rekey_path")
    IN /\ th.pc = "rename"
       /\ MtStep(t, r, Held(t), s)

\* write's update of the cached size, and its reply
mt_write_attr(t) ==
    LET th == threads[t]
        c == th.c
        s == IF c.ino \in DOMAIN inodes
             THEN [Shared EXCEPT !.inodes[c.ino].attr.size = Len(th.file_data),
                                 !.inodes[c.ino].attr.mtime = NOW]
             ELSE Shared
    IN /\ th.pc = "write_attr"
       /\ WithMutex(t, "inodes", finish(th, ReplyWritten(Len(c.data))),
                    Held(t), s)

\* create's file handle, and its reply
mt_next_fh(t) ==
    LET th == threads[t]
    IN /\ th.pc = "next_fh"
       /\ WithMutex(t, "next_fh",
                    finish(th, ReplyCreated(th.inode.val.attr, next_fh)),
                    Held(t), [Shared EXCEPT !.next_fh = @ + 1])

\* unlink / rmdir under their guards: path_to_ino.remove(&path)
mt_forget_path(t) ==
    LET th == threads[t]
    IN /\ th.pc = "forget_path"
       /\ IF th.path \in DOMAIN path_to_ino
          THEN MtStep(t, goto([th EXCEPT !.got = path_to_ino[th.path]],
                              "forget_inode"),
                      Held(t),
                      [Shared EXCEPT !.path_to_ino = Remove(@, th.path)])
          ELSE MtStep(t, finish(th, ReplyOk), {}, Shared)

\* inodes.remove(&ino), and the reply
mt_forget_inode(t) ==
    LET th == threads[t]
    IN /\ th.pc = "forget_inode"
       /\ MtStep(t, finish(th, ReplyOk), {},
                 [Shared EXCEPT !.inodes = Remove(@, th.got)])

\* rename under its guards: path_to_ino.remove(&from_path) and
\* path_to_ino.insert(to_path, ino)
mt_rekey_path(t) ==
    LET th == threads[t]
    IN /\ th.pc = "rekey_path"
       /\ IF th.path \in DOMAIN path_to_ino
          THEN MtStep(t, goto([th EXCEPT !.got = path_to_ino[th.path]],
                              "rekey_inode"),
                      Held(t),
                      [Shared EXCEPT !.path_to_ino =
                          Insert(Remove(@, th.path), th.to_path,
                                 path_to_ino[th.path])])
          ELSE MtStep(t, finish(th, ReplyOk), {}, Shared)

\* inode.path = to_path, and the reply
mt_rekey_inode(t) ==
    LET th == threads[t]
    IN /\ th.pc = "rekey_inode"
       /\ MtStep(t, finish(th, ReplyOk), {},
                 IF th.got \in DOMAIN inodes
                 THEN [Shared EXCEPT !.inodes[th.got].path = th.to_path]
                 ELSE Shared)

\* what the server holds when the two callbacks enter: the file /a, and /b
\* absent, or a file, or a file whose mtime is before the epoch
MtRemote(b) ==
    [p \in {"/", "/a"} \cup (IF b = "absent" THEN {} ELSE {"/b"}) |->
        CASE p = "/" -> Obj(TRUE, <<>>, 0, 0)
          [] p = "/a" -> Obj(FALSE, <<2>>, 0, 0)
          [] p = "/b" -> Obj(FALSE, <<>>, IF b = "malformed" THEN -1 ELSE 0, 0)]

\* the run starts where lookup(1, "a") has registered the file /a
InitMt ==
    /\ \E b \in {"absent", "file", "malformed"} : remote = MtRemote(b)
    /\ inodes = RWRegistry(remote).inodes
    /\ path_to_ino = RWRegistry(remote).path_to_ino
    /\ next_ino = RWRegistry(remote).next_ino
    /\ issued = RWRegistry(remote).issued
    /\ next_fh = 1
    /\ panicked = FALSE
    /\ pre = NewRegistry
    /\ call = NoCall
    /\ replies = <<>>
    /\ rpc = <<>>
    /\ calls = 0
    /\ FsIs(fs_new)
    /\ NoThreads

\* the callbacks a thread may run
MtCalls ==
    { [op |-> "lookup", parent |-> ROOT_INO, name |-> n] : n \in Names }
    \cup { [op |-> "getattr", ino |-> 2] }
    \cup { [op |-> "readdir", ino |-> ROOT_INO, offset |-> 0, cap |-> MtMaxCap] }
    \cup { [op |-> "read", ino |-> 2, offset |-> 0, size |-> 1] }
    \cup { [op |-> "write", ino |-> 2, offset |-> o, data |-> <<1>>] :
              o \in 0..MtMaxOff }
    \cup { [op |-> "mkdir", parent |-> ROOT_INO, name |-> "b"] }
    \cup { [op |-> "create", parent |-> ROOT_INO, name |-> "b"] }
    \cup { [op |-> "unlink", parent |-> ROOT_INO, name |-> n] : n \in Names }
    \cup { [op |-> "rmdir", parent |-> ROOT_INO, name |-> "b"] }
    \cup { [op |-> "rename", parent |-> ROOT_INO, name |-> nm[1],
            newparent |-> ROOT_INO, newname |-> nm[2]] :
              nm \in { x \in Names \X Names : x[1] # x[2] } }

NextMt ==
    \/ \E t \in Threads, c \in MtCalls : mt_call(t, c)
    \/ \E t \in Threads : mt_path_from_parent_and_name(t)
    \/ \E t \in Threads : mt_lock(t)
    \/ \E t \in Threads : mt_cached(t)
    \/ \E t \in Threads : mt_get_inode(t)
    \/ \E t \in Threads : mt_get_or_create_inode(t)
    \/ \E t \in Threads : mt_insert_path(t)
    \/ \E t \in Threads, up \in BOOLEAN : mt_list_directory(t, up)
    \/ \E t \in Threads, up \in BOOLEAN : mt_read_file(t, up)
    \/ \E t \in Threads, up \in BOOLEAN : mt_write_file(t, up)
    \/ \E t \in Threads, up \in BOOLEAN : mt_create_directory(t, up)
    \/ \E t \in Threads, up \in BOOLEAN : mt_delete(t, up)
    \/ \E t \in Threads, up \in BOOLEAN : mt_rename(t, up)
    \/ \E t \in Threads : mt_write_attr(t)
    \/ \E t \in Threads : mt_next_fh(t)
    \/ \E t \in Threads : mt_forget_path(t)
    \/ \E t \in Threads : mt_forget_inode(t)
    \/ \E t \in Threads : mt_rekey_path(t)
    \/ \E t \in Threads : mt_rekey_inode(t)

SpecMt == InitMt /\ [][NextMt]_vars

(***************************************************************************)
(* Properties.                                                             *)
(***************************************************************************)
Replied == call.op # "new"
RepliedWith(op, kind) ==
    call.op = op /\ Len(replies) = 1 /\ replies[1].kind = kind

\* C1: every callback emits exactly one reply, whatever its input, and never
\* panics before replying.
C1_ExactlyOneReply ==
    /\ ~panicked
    /\ Replied => Len(replies) = 1

\* C2 (I1): every entry (p, i) of path_to_ino has a record for i in inodes,
\* and that record's path is p.
C2_I1 ==
    \A p \in DOMAIN path_to_ino :
       /\ path_to_ino[p] \in DOMAIN inodes
       /\ inodes[path_to_ino[p]].path = p

\* a rename has just moved a registered entry onto a path that was
\* registered too
C2_Witness ==
    /\ RepliedWith("rename", "ok")
    /\ rpc[1].path # rpc[1].to
    /\ rpc[1].path \in DOMAIN pre.path_to_ino
    /\ rpc[1].to \in DOMAIN pre.path_to_ino
    /\ rpc[1].to \in DOMAIN path_to_ino

\* C3 (P1): every inode above 1 in inodes is the one path_to_ino gives for
\* its path; no record's path is unmapped or mapped to another inode.
C3_P1 ==
    \A ino \in DOMAIN inodes :
       ino > 1 =>
          /\ inodes[ino].path \in DOMAIN path_to_ino
          /\ path_to_ino[inodes[ino].path] = ino

\* C4 (P2, I4): the inode numbers issued start at 2 and strictly increase in
\* order of issue, so none is issued twice, also not for a path that was
\* deleted and comes back; next_ino is above every number in use.
C4_IssuedIncreasing ==
    /\ Len(issued) > 0 => issued[1].ino = 2
    /\ \A k \in 1..Len(issued) :
          /\ k > 1 => issued[k].ino > issued[k - 1].ino
          /\ issued[k].ino < next_ino
    /\ \A ino \in DOMAIN inodes :
          ino = ROOT_INO \/ (ino < next_ino /\ \E k \in 1..Len(issued) : issued[k].ino = ino)

\* a path was issued a number, was deleted, and has been issued a number again
C4_Witness ==
    \E j \in 1..Len(issued) : \E k \in (j + 1)..Len(issued) :
       /\ issued[j].path = issued[k].path
       /\ issued[j].ino \notin DOMAIN inodes
       /\ issued[k].ino \in DOMAIN inodes

\* the last callback was a rename that replied success and whose old path
\* was registered
RenamedRegistered ==
    /\ RepliedWith("rename", "ok")
    /\ rpc[1].path \in DOMAIN pre.path_to_ino

\* what C5 asserts of the state after a rename from a to b
RenamePost(a, b, ino_a) ==
    /\ a \notin DOMAIN path_to_ino
    /\ b \in DOMAIN path_to_ino
    /\ path_to_ino[b] = ino_a
    /\ ino_a \in DOMAIN inodes
    /\ inodes[ino_a].path = b
    /\ \A up \in BOOLEAN :
          /\ lookup_outcome(call.parent, call.name, up).replies
                = <<ReplyError(ENOENT)>>
          /\ LET r == lookup_outcome(call.newparent, call.newname, up).replies
             IN Len(r) = 1 /\ r[1].kind = "entry" /\ r[1].attr.ino = ino_a

\* C5 (P3), as claimed: after a rename that replies success, from a
\* registered old path a to b, path_to_ino has no entry for a, maps b to the
\* inode a had, that record's path is b, a lookup of the old name replies
\* not-found and a lookup of the new name replies with that inode.
C5_RenameRekeys ==
    RenamedRegistered =>
       RenamePost(rpc[1].path, rpc[1].to, pre.path_to_ino[rpc[1].path])

\* C5, amended: the same, for a rename whose new path differs from the old.
C5_RenameRekeysDistinct ==
    (RenamedRegistered /\ rpc[1].path # rpc[1].to) =>
       RenamePost(rpc[1].path, rpc[1].to, pre.path_to_ino[rpc[1].path])

\* a registered path has just been renamed to another path
C5_Witness ==
    /\ RenamedRegistered
    /\ rpc[1].path # rpc[1].to
    /\ path_to_ino[rpc[1].to] = pre.path_to_ino[rpc[1].path]

\* C6 (P4): after an unlink or rmdir on p that replies success, path_to_ino
\* has no entry for p and no record in inodes has path p.
C6_ForgetBothDirections ==
    (RepliedWith("unlink", "ok") \/ RepliedWith("rmdir", "ok")) =>
       /\ rpc[1].path \notin DOMAIN path_to_ino
       /\ \A ino \in DOMAIN inodes : inodes[ino].path # rpc[1].path

\* C7 (I2): inode 1 is always in inodes with path "/" and kind directory,
\* path_to_ino maps "/" to 1, and getattr(1) replies with that directory
\* record.
C7_RootPresent ==
    /\ ROOT_INO \in DOMAIN inodes
    /\ inodes[ROOT_INO].path = "/"
    /\ inodes[ROOT_INO].attr.kind = "Directory"
    /\ "/" \in DOMAIN path_to_ino
    /\ path_to_ino["/"] = ROOT_INO
    /\ getattr_outcome(ROOT_INO).replies = <<ReplyAttr(inodes[ROOT_INO].attr)>>
    /\ (call.op = "getattr" /\ call.ino = ROOT_INO) =>
          (RepliedWith("getattr", "attr") /\ replies[1].attr.kind = "Directory")

\* getattr(1) has just replied, in a registry that has lost an entry it had
C7_Witness ==
    /\ call.op = "getattr" /\ call.ino = ROOT_INO
    /\ RepliedWith("getattr", "attr")
    /\ \E k \in 1..Len(issued) : issued[k].ino \notin DOMAIN inodes

\* C8 (P6): after a write(ino, off, data) that replies success, a
\* read(ino, off, len(data)) that the remote serves replies exactly data.
C8_RoundTrip ==
    RepliedWith("write", "written") =>
       read_outcome(call.ino, call.offset, Len(call.data), TRUE).replies
          = <<ReplyData(call.data)>>

\* a write has just succeeded past the end of a file that held bytes
C8_Witness ==
    /\ RepliedWith("write", "written")
    /\ rpc[1].ok /\ Len(rpc[1].body) > 0
    /\ call.offset > Len(rpc[1].body)

\* the last callback was a write whose fetch and whose PUT both succeeded
WriteServed ==
    call.op = "write" /\ Len(rpc) = 2 /\ rpc[1].ok /\ rpc[2].ok

\* C9: when the fetch returns B (length L) and the PUT succeeds, the object
\* sent is B zero-extended to max(L, offset + len(data)) with data at
\* [offset, offset + len(data)) and every other byte of B unchanged; the
\* cached size becomes that length and the reply is len(data).
C9_WriteSplices ==
    WriteServed =>
       LET B == rpc[1].body
           X == rpc[2].body
           off == call.offset
           n == Len(call.data)
           total == IF Len(B) >= off + n THEN Len(B) ELSE off + n
       IN /\ Len(X) = total
          /\ \A k \in 1..total :
                X[k] = IF off < k /\ k <= off + n THEN call.data[k - off]
                       ELSE IF k <= Len(B) THEN B[k] ELSE 0
          /\ inodes[call.ino].attr.size = total
          /\ replies = <<ReplyWritten(n)>>

\* a served write has just left a gap between the old end and its offset
C9_Witness ==
    /\ WriteServed
    /\ Len(rpc[1].body) > 0
    /\ call.offset > Len(rpc[1].body)
    /\ Len(rpc[2].body) = call.offset + Len(call.data)

\* C10: when the fetch returns bytes of length L, read replies empty data if
\* offset >= L and otherwise bytes[offset .. min(offset + size, L)].
C10_ReadSlices ==
    (call.op = "read" /\ Len(rpc) = 1 /\ rpc[1].ok) =>
       LET bytes == rpc[1].body
           L == Len(bytes)
           off == call.offset
           stop == IF off + call.size <= L THEN off + call.size ELSE L
       IN /\ RepliedWith("read", "data")
          /\ off >= L => replies[1].data = <<>>
          /\ off < L =>
               /\ Len(replies[1].data) = stop - off
               /\ \A k \in 1..(stop - off) : replies[1].data[k] = bytes[off + k]

\* a read has just asked for more than is left after its offset
C10_Witness ==
    /\ RepliedWith("read", "data")
    /\ rpc[1].ok
    /\ call.offset > 0
    /\ call.offset < Len(rpc[1].body)
    /\ call.offset + call.size > Len(rpc[1].body)

\* the last callback was a readdir of a registered directory whose listing
\* the server served
ReaddirServed ==
    /\ call.op = "readdir"
    /\ call.ino \in DOMAIN pre.inodes
    /\ Len(rpc) = 1 /\ rpc[1].ok

\* the names a complete listing of the directory just read carries, in order
ListedNames ==
    LET entries == SrvList(remote, pre.inodes[call.ino].path)
    IN <<".", "..">> \o [k \in 1..Len(entries) |-> entries[k].name]

\* C11: readdir(ino, 0) on a registered directory whose listing succeeds
\* emits "." with next_offset 1, ".." with next_offset 2, then the remote
\* entry at position i with next_offset i + 3; the offsets a call emits are
\* strictly increasing and all above the offset the call resumed from.
C11_ReaddirOffsets ==
    ReaddirServed =>
       /\ Len(replies) = 1 /\ replies[1].kind = "ok"
       /\ LET ents == replies[1].entries
          IN /\ \A j \in 1..Len(ents) :
                   /\ ents[j].offset > call.offset
                   /\ j > 1 => ents[j].offset > ents[j - 1].offset
             /\ call.offset = 0 =>
                   /\ Len(ents) <= Len(ListedNames)
                   /\ \A j \in 1..Len(ents) :
                         /\ ents[j].offset = j
                         /\ ents[j].name = ListedNames[j]

\* C12: with a buffer of at least one entry, a readdir that resumes at a
\* cursor o of the listing emits exactly the entries o+1 .. o+k of
\* <<".", "..", remote entries>>, k the smaller of the capacity and what is
\* left, each with its own position as next_offset, and replies ok; so the
\* chain from offset 0 emits every entry exactly once, in server order.
C12_ReaddirResumes ==
    (ReaddirServed /\ call.cap >= 1 /\ call.offset \in 0..Len(ListedNames)) =>
       /\ Len(replies) = 1 /\ replies[1].kind = "ok"
       /\ LET ents == replies[1].entries
              left == Len(ListedNames) - call.offset
          IN /\ Len(ents) = IF call.cap <= left THEN call.cap ELSE left
             /\ \A j \in 1..Len(ents) :
                   /\ ents[j].offset = call.offset + j
                   /\ ents[j].name = ListedNames[call.offset + j]
                   /\ ents[j].offset > 2 =>
                         /\ JoinPath(pre.inodes[call.ino].path, ents[j].name)
                               \in DOMAIN path_to_ino
                         /\ ents[j].ino =
                               path_to_ino[JoinPath(pre.inodes[call.ino].path,
                                                    ents[j].name)]

\* the last callback was a mutation whose mutating request the server failed
MutationFailed ==
    /\ call.op \in {"create", "mkdir", "unlink", "rmdir", "rename", "write"}
    /\ Len(rpc) >= 1
    /\ ~rpc[Len(rpc)].ok

\* C13: when the remote mutating call of create, mkdir, unlink, rmdir, rename
\* or write fails, the callback replies EIO and inodes, path_to_ino, next_ino
\* and every cached attribute are as they were before the call.
C13_FailedMutationFrame ==
    MutationFailed =>
       /\ replies = <<ReplyError(EIO)>>
       /\ inodes = pre.inodes
       /\ path_to_ino = pre.path_to_ino
       /\ next_ino = pre.next_ino

\* the server has just refused to delete a path that is registered
C13_Witness ==
    /\ MutationFailed
    /\ call.op \in {"unlink", "rmdir"}
    /\ rpc[1].path \in DOMAIN pre.path_to_ino

\* C14: when the initial fetch fails and the final PUT succeeds, write
\* replies len(data), the object sent is offset zero bytes followed by data,
\* and the cached size becomes offset + len(data); when the final PUT fails
\* the reply is EIO whatever the fetch did.
C14_WriteToleratesFailedRead ==
    (call.op = "write" /\ Len(rpc) = 2) =>
       /\ (~rpc[1].ok /\ rpc[2].ok) =>
             /\ replies = <<ReplyWritten(Len(call.data))>>
             /\ rpc[2].body = [k \in 1..(call.offset + Len(call.data)) |->
                                  IF k <= call.offset THEN 0
                                  ELSE call.data[k - call.offset]]
             /\ inodes[call.ino].attr.size = call.offset + Len(call.data)
       /\ ~rpc[2].ok => replies = <<ReplyError(EIO)>>

\* a write past the start has just gone through although its fetch failed
C14_Witness ==
    /\ call.op = "write" /\ Len(rpc) = 2
    /\ ~rpc[1].ok /\ rpc[2].ok
    /\ call.offset > 0
    /\ pre.inodes[call.ino].attr.size > 0

\* C15: read leaves inodes, path_to_ino, next_ino and the cached attributes
\* as they were, whether the fetch succeeds or fails; a failed fetch replies
\* EIO and an unknown ino replies ENOENT.
C15_ReadFrame ==
    call.op = "read" =>
       /\ inodes = pre.inodes
       /\ path_to_ino = pre.path_to_ino
       /\ next_ino = pre.next_ino
       /\ call.ino \notin DOMAIN pre.inodes =>
             replies = <<ReplyError(ENOENT)>> /\ rpc = <<>>
       /\ call.ino \in DOMAIN pre.inodes =>
             /\ Len(rpc) = 1
             /\ ~rpc[1].ok => replies = <<ReplyError(EIO)>>
             /\ rpc[1].ok => RepliedWith("read", "data")

\* the fetch of a registered file that holds bytes has just failed
C15_Witness ==
    /\ call.op = "read"
    /\ call.ino \in DOMAIN pre.inodes
    /\ pre.inodes[call.ino].attr.size > 0
    /\ Len(rpc) = 1 /\ ~rpc[1].ok

\* the last callback was a lookup of a child that was not registered and
\* that the listing could not supply: parent unknown, name not text, listing
\* failed, or listing served without an entry of that name
LookupMiss ==
    /\ call.op = "lookup"
    /\ \/ call.parent \notin DOMAIN pre.inodes
       \/ call.name = NonTextName
       \/ /\ JoinPath(pre.inodes[call.parent].path, call.name)
                \notin DOMAIN pre.path_to_ino
          /\ Len(rpc) = 1
          /\ \/ ~rpc[1].ok
             \/ \A k \in 1..Len(SrvList(remote, pre.inodes[call.parent].path)) :
                   SrvList(remote, pre.inodes[call.parent].path)[k].name
                      # call.name

\* C16: a lookup whose parent is unknown, whose name is not text, whose
\* listing fails, or whose listing has no entry of that name, replies ENOENT
\* (never an entry, never EIO) and registers nothing.
C16_LookupMiss ==
    LookupMiss =>
       /\ replies = <<ReplyError(ENOENT)>>
       /\ inodes = pre.inodes
       /\ path_to_ino = pre.path_to_ino
       /\ next_ino = pre.next_ino

\* a listing that failed has just been answered to a lookup under a
\* registered directory
C16_Witness ==
    /\ call.op = "lookup"
    /\ call.parent \in DOMAIN pre.inodes
    /\ call.name # NonTextName
    /\ Len(rpc) = 1 /\ ~rpc[1].ok
    /\ replies = <<ReplyError(ENOENT)>>

\* C17: getattr issues no remote call and changes neither the registry, the
\* handle counter nor the server; it replies the attributes cached for ino,
\* or ENOENT when ino is not registered.
C17_GetattrPure ==
    [][(call'.op = "getattr" /\ calls' = calls + 1) =>
          /\ UNCHANGED <<inodes, path_to_ino, next_ino, next_fh, remote>>
          /\ rpc' = <<>>
          /\ replies' = IF call'.ino \in DOMAIN inodes
                        THEN <<ReplyAttr(inodes[call'.ino].attr)>>
                        ELSE <<ReplyError(ENOENT)>>]_vars

\* getattr has just replied the record of an inode a listing registered
C17_Witness ==
    /\ RepliedWith("getattr", "attr")
    /\ call.ino # ROOT_INO
    /\ rpc = <<>>

\* C18: interning a path that is already registered returns its inode
\* number and overwrites the cached attributes from the entry supplied: after
\* a readdir that replied, the cached size, mtime and perm of every child it
\* emitted are those of the listing just received.
C18_InternRefreshes ==
    (ReaddirServed /\ Len(replies) = 1) =>
       \A j \in 1..Len(replies[1].entries) :
          LET ent == replies[1].entries[j]
              dir_path == pre.inodes[call.ino].path
              child == JoinPath(dir_path, ent.name)
          IN ent.name \notin {".", ".."} =>
                /\ child \in DOMAIN pre.path_to_ino =>
                      ent.ino = pre.path_to_ino[child]
                /\ ent.ino \in DOMAIN inodes
                /\ LET listed == SrvEntry(remote, dir_path, ent.name)
                       cached == inodes[ent.ino].attr
                   IN /\ cached.size = listed.size
                      /\ cached.mtime = listed.mtime
                      /\ cached.perm = listed.mode % 512

\* C19: when the server's metadata of a registered path has changed behind
\* the adapter, a lookup of that path replies the changed size and mtime, and
\* a getattr after it reports them.
C19_RelookupRefreshes ==
    (/\ RepliedWith("lookup", "entry")
     /\ JoinPath(pre.inodes[call.parent].path, call.name)
           \in DOMAIN pre.path_to_ino
     /\ Exists(remote, JoinPath(pre.inodes[call.parent].path, call.name))) =>
       LET listed == SrvEntry(remote, pre.inodes[call.parent].path, call.name)
           after == getattr_outcome(replies[1].attr.ino).replies
       IN /\ replies[1].attr.size = listed.size
          /\ replies[1].attr.mtime = listed.mtime
          /\ Len(after) = 1 /\ after[1].kind = "attr"
          /\ after[1].attr.size = listed.size
          /\ after[1].attr.mtime = listed.mtime

\* C20: after a create that replied success, the child path is registered
\* and both the replied and the cached attributes of its inode are a regular
\* file of perm 0o644 and size 0, whatever was registered before.
C20_CreateDefaults ==
    RepliedWith("create", "created") =>
       LET child == JoinPath(pre.inodes[call.parent].path, call.name)
       IN /\ child \in DOMAIN path_to_ino
          /\ path_to_ino[child] \in DOMAIN inodes
          /\ replies[1].attr = inodes[path_to_ino[child]].attr
          /\ replies[1].attr.kind = "RegularFile"
          /\ replies[1].attr.perm = 420
          /\ replies[1].attr.size = 0

\* the last callback was a lookup or a readdir whose listing succeeded
ListingServed ==
    /\ call.op \in {"lookup", "readdir"}
    /\ Len(rpc) = 1
    /\ rpc[1].ok

\* C25: when the listing a lookup or readdir interns from carries an mtime
\* or ctime that is not a valid non-negative number of seconds, the callback
\* still completes with its one reply, and the records it added hold the
\* epoch in place of the malformed time.
C25_EpochFallback ==
    ListingServed =>
       /\ ~panicked
       /\ Len(replies) = 1
       /\ \A i \in DOMAIN inodes \ DOMAIN pre.inodes :
             LET listed == remote[inodes[i].path]
                 attr == inodes[i].attr
             IN /\ ~from_secs_f64_ok(listed.mtime) =>
                      attr.mtime = 0 /\ attr.atime = 0
                /\ ~from_secs_f64_ok(listed.ctime) => attr.ctime = 0

\* C26: every cached attribute record has blocks = ceil(size / 512) and
\* block size 512, also after write has changed the cached size.
C26_BlocksMatchSize ==
    \A i \in DOMAIN inodes :
       /\ inodes[i].attr.blocks = (inodes[i].attr.size + 511) \div 512
       /\ inodes[i].attr.blksize = 512

\* the entries a rename of a registered path may touch
RenameTouched ==
    IF rpc[1].path \in DOMAIN pre.path_to_ino
    THEN [paths |-> {rpc[1].path, rpc[1].to},
          inos |-> {pre.path_to_ino[rpc[1].path]}]
    ELSE [paths |-> {}, inos |-> {}]

\* C27: a rename from a to b that replies success changes no registry
\* entry but the one keyed by a and the path_to_ino entry of b: every other
\* record and every other path entry, those of the descendants a/c of a
\* renamed directory included, is as it was, and next_ino is unchanged.
C27_RenameFrame ==
    RepliedWith("rename", "ok") =>
       /\ next_ino = pre.next_ino
       /\ DOMAIN inodes = DOMAIN pre.inodes
       /\ \A i \in DOMAIN pre.inodes \ RenameTouched.inos :
             inodes[i] = pre.inodes[i]
       /\ DOMAIN path_to_ino \subseteq
             (DOMAIN pre.path_to_ino) \cup RenameTouched.paths
       /\ \A p \in DOMAIN pre.path_to_ino \ RenameTouched.paths :
             /\ p \in DOMAIN path_to_ino
             /\ path_to_ino[p] = pre.path_to_ino[p]

\* a registered directory was renamed while a path below it was registered,
\* and that path still names the old place
C27_Witness ==
    /\ RenamedRegistered
    /\ rpc[1].path # rpc[1].to
    /\ \E p \in DOMAIN path_to_ino :
          /\ p # rpc[1].path
          /\ Under(rpc[1].path, p)
          /\ p \in DOMAIN pre.path_to_ino
          /\ path_to_ino[p] = pre.path_to_ino[p]
          /\ inodes[path_to_ino[p]].path = p

\* what a directory shows: ".", "..", then the server's listing
FsShown(path) ==
    LET entries == SrvList(remote, path)
    IN <<".", "..">> \o [k \in 1..Len(entries) |-> entries[k].name]

\* C29: in the dispatcher of fs/mod.rs the offset emitted with an entry is a
\* resumption cursor: a readdir that is handed the offset emitted with the
\* q-th shown entry (q - 1, as the code numbers them) and replies ok emits
\* the entries from the (q + 1)-th on, as many as its buffer takes; a
\* readdir from offset 0, the start, emits them from the first on.
C29_FsReaddirResumes ==
    RepliedWith("fs::readdir", "ok") =>
       LET shown == FsShown(rpc[1].path)
           emitted == replies[1].entries
           names == [k \in 1..Len(emitted) |-> emitted[k].name]
           first == IF call.offset = 0 THEN 1 ELSE call.offset + 2
           last == Min(Len(shown), first + call.cap - 1)
       IN call.offset < Len(shown) => names = SubSeq(shown, first, last)

\* C30: in the dispatcher of fs/mod.rs, after a write(ino, offset, data)
\* that replied success the remote object holds data at [offset,
\* offset + len(data)) and every byte it held before outside that range is
\* as it was.
C30_FsWriteSplices ==
    RepliedWith("fs::write", "written") =>
       LET path == rpc[1].path
           old == IF path \in DOMAIN pre.remote THEN pre.remote[path].data
                  ELSE <<>>
           new == remote[path].data
           offset == call.offset
           data == call.data
       IN /\ \A k \in 1..Len(data) :
                /\ offset + k <= Len(new)
                /\ new[offset + k] = data[k]
          /\ \A j \in 1..Len(old) :
                (j <= offset \/ j > offset + Len(data)) =>
                    /\ j <= Len(new)
                    /\ new[j] = old[j]

\* the Mutex a thread locks in its next step, if it locks one
Wants(t) ==
    LET th == threads[t]
    IN CASE th.pc = "lock" -> {Head(th.want)}
         [] th.pc \in {"path", "to_path", "get_inode", "cached_inode",
                       "interned_inode", "write_attr"} -> {"inodes"}
         [] th.pc = "next_fh" -> {"next_fh"}
         [] OTHER -> {}
\* the thread waits for a Mutex that a thread holds
Blocked(t) == \E m \in Wants(t) : owner[m] # "free"
\* between the map updates of an intern, a forget or a rekey
Mutating(t) == threads[t].pc \in {"insert_path", "forget_inode", "rekey_inode"}
\* about to send a request to the server
Calling(t) ==
    threads[t].pc \in {"list_directory", "read_file", "write_file",
                       "create_directory", "delete", "rename"}

\* C21 (I3): a thread that is between the map updates of an intern, a
\* forget or a rekey holds both the path_to_ino and the inodes Mutex, and
\* I1 is false only while a thread is there: no other thread can read either
\* map in a state where I1 is false.
C21_I3 ==
    /\ \A t \in Threads :
          Mutating(t) => {"path_to_ino", "inodes"} \subseteq Held(t)
    /\ ~C2_I1 =>
          \E t \in Threads :
             /\ Mutating(t)
             /\ {"path_to_ino", "inodes"} \subseteq Held(t)
             /\ \A u \in Threads \ {t} :
                   Wants(u) \cap {"path_to_ino", "inodes"} # {} => Blocked(u)

\* I1 is false in the middle of a rename while the other thread waits to
\* read a map
C21_Witness ==
    /\ ~C2_I1
    /\ \E t \in Threads, u \in Threads :
          /\ threads[t].pc = "rekey_inode"
          /\ u # t
          /\ Blocked(u)

\* C22: a thread holds none of the four Mutexes while a request of its
\* callback to the server is in flight.
C22_NoGuardAcrossRemote ==
    \A t \in Threads : Calling(t) => Held(t) = {}

\* a lookup that missed the cache is about to list the directory while the
\* other thread is inside a critical section
C22_Witness ==
    \E t \in Threads, u \in Threads :
       /\ threads[t].pc = "list_directory"
       /\ threads[t].c.op = "lookup"
       /\ Held(t) = {}
       /\ Held(u) # {}

\* the inode number a reply names for the child name of the root
NamedIno(name) == path_to_ino[JoinPath("/", name)]

\* C23: while no thread runs unlink, rmdir or rename, no path is issued two
\* inode numbers, every reply that names a path carries the one number the
\* path has, and next_ino has moved by one for each number issued (and by
\* one more if a get_or_create_inode panicked).
C23_OneInodePerPath ==
    (\A t \in Threads : threads[t].c.op \notin {"unlink", "rmdir", "rename"}) =>
       /\ \A j \in DOMAIN issued, k \in DOMAIN issued :
             issued[j].path = issued[k].path => j = k
       /\ \A t \in Threads :
             LET th == threads[t]
             IN (th.pc = "done" /\ th.reply[1].kind \in {"entry", "created"}) =>
                   th.reply[1].attr.ino = NamedIno(th.c.name)
       /\ \A t \in Threads :
             LET th == threads[t]
             IN (th.pc = "done" /\ th.c.op = "readdir" /\ th.reply[1].kind = "ok") =>
                   \A k \in 3..Len(th.reply[1].entries) :
                      th.reply[1].entries[k].ino =
                         NamedIno(th.reply[1].entries[k].name)
       /\ next_ino = 2 + Len(issued) + (IF panicked THEN 1 ELSE 0)

\* both threads asked for the path /b, which had no number, and each has
\* replied with the same one
C23_Witness ==
    /\ Len(issued) = 2
    /\ \A t \in Threads :
          /\ threads[t].pc = "done"
          /\ threads[t].c.op \in {"lookup", "mkdir", "create"}
          /\ threads[t].c.name = "b"
          /\ threads[t].reply[1].kind \in {"entry", "created"}
          /\ threads[t].reply[1].attr.ino = 3
    /\ \E t \in Threads : threads[t].ret = "reply" /\ threads[t].got = 3
    /\ threads["t1"].c.op # threads["t2"].c.op

\* both threads ran a write that replied success
BothWrote ==
    \A t \in Threads :
       /\ threads[t].c.op = "write"
       /\ threads[t].pc = "done"
       /\ threads[t].reply[1].kind = "written"

\* C24: when two writes on one inode have both replied success, the remote
\* object is the whole buffer of the write whose PUT the server took last:
\* what that write fetched, grown with zeros to offset + len(data), with data
\* at offset.
C24_LastWriterWins ==
    BothWrote =>
       LET w == threads[rpc[1].by]
           old == w.fetched
           offset == w.c.offset
           data == w.c.data
           final == remote[rpc[1].sent.path].data
       IN /\ rpc[1].sent.req = "put"
          /\ Len(final) = Max(Len(old), offset + Len(data))
          /\ \A k \in 1..Len(final) :
                final[k] = IF k > offset /\ k <= offset + Len(data)
                           THEN data[k - offset]
                           ELSE IF k <= Len(old) THEN old[k] ELSE 0

\* a lost update: both writes replied success and the remote object lacks
\* the data of one of them
C24_Witness ==
    /\ BothWrote
    /\ \E t \in Threads :
          LET final == remote["/a"].data
              offset == threads[t].c.offset
              data == threads[t].c.data
          IN \E k \in 1..Len(data) :
                offset + k > Len(final) \/ final[offset + k] # data[k]

\* the one order in which the Mutexes are locked
Rank(m) ==
    CASE m = "path_to_ino" -> 1
      [] m = "inodes" -> 2
      [] m = "next_ino" -> 3
      [] m = "next_fh" -> 4

\* C28: a thread locks a Mutex only while the Mutexes it holds come before
\* it in the order path_to_ino, inodes, next_ino, and next_fh only while it
\* holds none; a thread that has returned or unwound holds none; and a
\* thread that waits for a Mutex waits for a thread that does not wait, so
\* no threads wait for each other.
C28_DeadlockFree ==
    /\ \A t \in Threads : \A m \in Wants(t) :
          /\ m = "next_fh" => Held(t) = {}
          /\ \A h \in Held(t) : h # "next_fh" /\ Rank(h) < Rank(m)
    /\ \A t \in Threads :
          threads[t].pc \in {"idle", "done", "panicked"} => Held(t) = {}
    /\ \A t \in Threads :
          Blocked(t) =>
             \A m \in Wants(t) :
                /\ owner[m] # t
                /\ ~Blocked(owner[m])

\* a thread waits for path_to_ino while the other is inside
\* get_or_create_inode, under its three guards
C28_Witness ==
    \E t \in Threads, u \in Threads :
       /\ Blocked(t)
       /\ Wants(t) = {"path_to_ino"}
       /\ Held(u) = {"path_to_ino", "inodes", "next_ino"}

====
